---- MODULE Spec2Model ----
(***************************************************************************)
(* Model of the backup-sync broker (crate ws): ServerState, the message    *)
(* handlers and the per-connection task of the WebSocket server.           *)
(*                                                                         *)
(* One action is one critical section on the broker-state RwLock, or one   *)
(* send on the shared broadcast channel.  The connection tasks run on the  *)
(* multi-threaded tokio runtime (#[tokio::main]), so the steps of          *)
(* different connections interleave freely.                                *)
(***************************************************************************)
EXTENDS Integers, Sequences, FiniteSets, TLC

\* ------------------------------------------------------------------ domains
Users == {"u1", "u2"}
ComputerIds == {"c1", "c2", "c3"}
FolderIds == {"f1", "f2"}

\* The connections of a run, named by their place in the accept order (each has
\* its own SocketAddr).
Addrs == 1..3

\* Cap on operation_counter (a u64 in the code; the cap keeps the model finite).
MaxOps == 2
\* pending_operations of a folder that is seeded not synced (tests: sync_folder).
SeedPending == 5
\* ServerConfig.broadcast_capacity, an input of run_server: the number of
\* messages the broadcast channel retains for receivers that have not taken them
\* yet (the channel rounds it up to a power of two).
broadcast_capacity == 1

NoneVal == "none"

VARIABLES
    users,                  \* ServerState.users: UserId -> User
    connections,            \* ServerState.connections: Addr -> ConnectedClient
    computer_connections,   \* ServerState.computer_connections: <<UserId, ComputerId>> -> Addr
    pending_operations,     \* ServerState.pending_operations: FolderId -> (op id -> pending acks)
    operation_counter,      \* ServerState.operation_counter
    task,                   \* position of each connection task (handle_connection)
    bcast,                  \* every BroadcastMessage sent on broadcast_tx, in send order
    rx,                     \* per connection: index in bcast of the next message of broadcast_rx
    ws_out,                 \* per connection: the broadcasts forwarded to its WebSocket, in order
    transfer_states,        \* agent, Folder.transfer_states: transfer id -> TransferState
    temp_files,             \* agent: content of the temp file of each transfer id that has one
    dest_files,             \* agent: content of each file of the folder, by resolved path
    panicked,               \* agent: the thread that processes the operations has panicked
    plan,                   \* the file a sender transfers in chunks, and its chunk size
    delivered,              \* the messages of that transfer the agent has processed
    threads,                \* agent: two threads in handle_chunk and handle_end of one transfer
    rpath,                  \* agent: a path string, the RelativePath made of it and its round trip
    origin_fs,              \* syncer: the original directory tree on disk, by relative path
    backup_fs,              \* syncer: the backup directory tree on disk, by relative path
    original,               \* Synchronizer.original: entries of the original tree (signatures)
    backup,                 \* Synchronizer.backup: entries of the backup tree (signatures)
    path_mapping,           \* Synchronizer.path_mapping: the original paths that are mapped
    options,                \* Synchronizer.options
    sync,                   \* position and locals of sync(), and the files it has written
    before,                 \* the two trees when the Synchronizer was built
    events                  \* syncer: the batch of debounced events in hand, and its handlers

broker_vars == <<users, connections, computer_connections, pending_operations,
                 operation_counter, task, bcast, rx, ws_out>>

agent_vars == <<transfer_states, temp_files, dest_files, panicked, plan, delivered,
                threads, rpath>>

syncer_vars == <<origin_fs, backup_fs, original, backup, path_mapping, options,
                 sync, before, events>>

vars == <<broker_vars, agent_vars, syncer_vars>>

\* ------------------------------------------------------------------ helpers
Put(f, k, v) == [x \in (DOMAIN f) \cup {k} |-> IF x = k THEN v ELSE f[x]]

Del(f, k) == [x \in (DOMAIN f) \ {k} |-> f[x]]

Contains(s, x) == \E i \in 1..Len(s) : s[i] = x

\* Vec::retain(|c| c != x)
Retain(s, x) == SelectSeq(s, LAMBDA c : c # x)

SeqSet(s) == {s[i] : i \in 1..Len(s)}

\* Positions of a connection task: not yet accepted, waiting in select!, ended;
\* and, carrying a folder and an operation id, "send" (between drop(state_write)
\* and broadcast_tx.send in handle_folder_operation) and "forward" (between
\* broadcast_rx.recv and the read lock of the broadcast branch).
NotAccepted == [pc |-> "new", folder_id |-> NoneVal, operation_id |-> 0]

Idle == [pc |-> "idle", folder_id |-> NoneVal, operation_id |-> 0]

Closed == [pc |-> "closed", folder_id |-> NoneVal, operation_id |-> 0]

NoFolder == [origin_computer |-> NoneVal, backup_computers |-> <<>>,
             is_synced |-> FALSE, pending_operations |-> 0]

\* ServerMessage: the variant and the fields the variants carry.
ServerMessage(t, f, op, txt, org, fld) ==
    [tag |-> t, folder_id |-> f, operation_id |-> op, text |-> txt,
     new_origin |-> org, folder |-> fld]

Error(message) == ServerMessage("Error", NoneVal, 0, message, NoneVal, NoFolder)

\* HandlerResponse::None
NoResponse == ServerMessage(NoneVal, NoneVal, 0, NoneVal, NoneVal, NoFolder)

ErrNoComputerAuth == "Not authenticated with a computer"

\* ------------------------------------------------------------------ ServerState
get_or_create_user(us, user_id) ==
    IF user_id \in DOMAIN us THEN us
    ELSE Put(us, user_id, [computers |-> <<>>, sync_folders |-> <<>>])

has_folder(us, user_id, folder_id) ==
    /\ user_id \in DOMAIN us
    /\ folder_id \in DOMAIN us[user_id].sync_folders

get_folder(us, user_id, folder_id) ==
    IF has_folder(us, user_id, folder_id)
    THEN us[user_id].sync_folders[folder_id]
    ELSE NoFolder

set_folder(us, user_id, folder_id, fld) ==
    [us EXCEPT ![user_id].sync_folders = Put(@, folder_id, fld)]
\* a mutation: the is_synced flag is not consulted
is_folder_synced_pending_only(us, user_id, folder_id) ==
    /\ has_folder(us, user_id, folder_id)
    /\ get_folder(us, user_id, folder_id).pending_operations = 0

is_folder_synced(us, user_id, folder_id) ==
    /\ has_folder(us, user_id, folder_id)
    /\ get_folder(us, user_id, folder_id).is_synced
    /\ get_folder(us, user_id, folder_id).pending_operations = 0

set_computer_online(us, user_id, computer_id, online) ==
    IF user_id \in DOMAIN us /\ computer_id \in DOMAIN us[user_id].computers
    THEN [us EXCEPT ![user_id].computers[computer_id] = online]
    ELSE us

computer_exists(us, user_id, computer_id) ==
    /\ user_id \in DOMAIN us
    /\ computer_id \in DOMAIN us[user_id].computers

register_computer(us, user_id, computer_id) ==
    IF user_id \in DOMAIN us
    THEN [us EXCEPT ![user_id].computers = Put(@, computer_id, FALSE)]
    ELSE us

create_sync_folder(us, user_id, folder_id, fld) ==
    IF user_id \in DOMAIN us
    THEN set_folder(us, user_id, folder_id, fld)
    ELSE us

\* a mutation: a new backup leaves is_synced as it is
join_sync_folder_keep_synced(us, user_id, folder_id, computer_id) ==
    IF has_folder(us, user_id, folder_id)
    THEN LET fld == get_folder(us, user_id, folder_id) IN
         IF ~Contains(fld.backup_computers, computer_id)
         THEN set_folder(us, user_id, folder_id,
                  [fld EXCEPT !.backup_computers = Append(@, computer_id)])
         ELSE us
    ELSE us

join_sync_folder(us, user_id, folder_id, computer_id) ==
    IF has_folder(us, user_id, folder_id)
    THEN LET fld == get_folder(us, user_id, folder_id) IN
         IF ~Contains(fld.backup_computers, computer_id)
         THEN set_folder(us, user_id, folder_id,
                  [fld EXCEPT !.backup_computers = Append(@, computer_id),
                              !.is_synced = FALSE])
         ELSE us
    ELSE us

leave_sync_folder(us, user_id, folder_id, computer_id) ==
    IF has_folder(us, user_id, folder_id)
    THEN set_folder(us, user_id, folder_id,
             [get_folder(us, user_id, folder_id)
                 EXCEPT !.backup_computers = Retain(@, computer_id)])
    ELSE us

\* a mutation: a backup passes for the origin
is_origin_or_backup(us, user_id, folder_id, computer_id) ==
    /\ has_folder(us, user_id, folder_id)
    /\ \/ get_folder(us, user_id, folder_id).origin_computer = computer_id
       \/ Contains(get_folder(us, user_id, folder_id).backup_computers, computer_id)

is_origin(us, user_id, folder_id, computer_id) ==
    /\ has_folder(us, user_id, folder_id)
    /\ get_folder(us, user_id, folder_id).origin_computer = computer_id

is_backup(us, user_id, folder_id, computer_id) ==
    /\ has_folder(us, user_id, folder_id)
    /\ Contains(get_folder(us, user_id, folder_id).backup_computers, computer_id)

ErrNotSynced == "Folder has pending operations and is not fully synced"

ErrNotBackup == "Only backup computers can request to become origin"
\* a mutation: the old origin is not pushed to backup_computers
switch_origin_no_demote(us, user_id, folder_id, new_origin) ==
    IF ~is_folder_synced(us, user_id, folder_id)
    THEN [res |-> ErrNotSynced, users |-> us]
    ELSE IF ~is_backup(us, user_id, folder_id, new_origin)
    THEN [res |-> ErrNotBackup, users |-> us]
    ELSE LET fld == get_folder(us, user_id, folder_id)
         IN [res |-> "Ok",
             users |-> set_folder(us, user_id, folder_id,
                 [fld EXCEPT !.origin_computer = new_origin,
                             !.backup_computers = Retain(@, new_origin)])]

\* a mutation: the two checks in the other order
switch_origin_backup_first(us, user_id, folder_id, new_origin) ==
    IF ~is_backup(us, user_id, folder_id, new_origin)
    THEN [res |-> ErrNotBackup, users |-> us]
    ELSE IF ~is_folder_synced(us, user_id, folder_id)
    THEN [res |-> ErrNotSynced, users |-> us]
    ELSE LET fld == get_folder(us, user_id, folder_id)
             old_origin == fld.origin_computer
         IN [res |-> "Ok",
             users |-> set_folder(us, user_id, folder_id,
                 [fld EXCEPT !.origin_computer = new_origin,
                             !.backup_computers =
                                 Append(Retain(@, new_origin), old_origin)])]

\* Result<(), &str> and the state after the call.
switch_origin(us, user_id, folder_id, new_origin) ==
    IF ~is_folder_synced(us, user_id, folder_id)
    THEN [res |-> ErrNotSynced, users |-> us]
    ELSE IF ~is_backup(us, user_id, folder_id, new_origin)
    THEN [res |-> ErrNotBackup, users |-> us]
    ELSE LET fld == get_folder(us, user_id, folder_id)
             old_origin == fld.origin_computer
         IN [res |-> "Ok",
             users |-> set_folder(us, user_id, folder_id,
                 [fld EXCEPT !.origin_computer = new_origin,
                             !.backup_computers =
                                 Append(Retain(@, new_origin), old_origin)])]
\* a mutation: the counter is returned before the increment, and not stored
next_operation_id_stale(counter) == counter

next_operation_id(counter) == counter + 1

increment_pending_operations(us, user_id, folder_id) ==
    IF has_folder(us, user_id, folder_id)
    THEN set_folder(us, user_id, folder_id,
             [get_folder(us, user_id, folder_id)
                 EXCEPT !.pending_operations = @ + 1, !.is_synced = FALSE])
    ELSE us
\* a mutation: the origin is counted with the backups
get_backup_count_with_origin(us, user_id, folder_id) ==
    IF has_folder(us, user_id, folder_id)
    THEN Len(get_folder(us, user_id, folder_id).backup_computers) + 1
    ELSE 0

get_backup_count(us, user_id, folder_id) ==
    IF has_folder(us, user_id, folder_id)
    THEN Len(get_folder(us, user_id, folder_id).backup_computers)
    ELSE 0

track_operation(po, folder_id, operation_id, backup_count) ==
    Put(po, folder_id,
        Put(IF folder_id \in DOMAIN po THEN po[folder_id] ELSE <<>>,
            operation_id, backup_count))

\* Some((Some(user_id), Some(computer_id))) = conn_info
conn_authenticated(a) ==
    /\ a \in DOMAIN connections
    /\ connections[a].user_id # NoneVal
    /\ connections[a].computer_id # NoneVal

should_receive_broadcast(a, folder_id) ==
    /\ conn_authenticated(a)
    /\ is_backup(users, connections[a].user_id, folder_id, connections[a].computer_id)

\* ------------------------------------------------------------------ id pools
\* Ids built from uuid_simple() (seconds and nanoseconds of the clock) are new:
\* the next unused id of a fixed order stands for any of them.
ComputerOrder == <<"c1", "c2", "c3">>

FolderOrder == <<"f1", "f2">>

FirstFree(order, used) ==
    LET free == {i \in 1..Len(order) : order[i] \notin used}
    IN IF free = {} THEN NoneVal
       ELSE order[CHOOSE i \in free : \A j \in free : i <= j]

UsedFolderIds == UNION {DOMAIN users[u].sync_folders : u \in DOMAIN users}

\* ids of computers registered by RegisterComputer
RegisterOrder == <<"c4">>

UsedComputerIds == UNION {DOMAIN users[u].computers : u \in DOMAIN users}

\* a connection task waiting in its select! loop
AtSelect(a) == task[a] = Idle

\* ------------------------------------------------------------------ handlers
\* Each handler is a function of the broker state and the message: the response
\* and the state it leaves (the fields it can write).
\* a mutation: the connection is bound whether the computer is registered or not
handle_authenticate_unchecked(a, user_id, computer_id) ==
    LET us == get_or_create_user(users, user_id) IN
    [reply |-> ServerMessage("Authenticated", NoneVal, 0, user_id, NoneVal, NoFolder),
     users |-> set_computer_online(us, user_id, computer_id, TRUE),
     connections |->
         IF a \in DOMAIN connections
         THEN [connections EXCEPT ![a] =
                  [user_id |-> user_id, computer_id |-> computer_id]]
         ELSE connections,
     computer_connections |->
         Put(computer_connections, <<user_id, computer_id>>, a)]

handle_authenticate(a, user_id, computer_id) ==
    LET us == get_or_create_user(users, user_id) IN
    IF computer_exists(us, user_id, computer_id)
    THEN [reply |-> ServerMessage("Authenticated", NoneVal, 0, user_id, NoneVal, NoFolder),
          users |-> set_computer_online(us, user_id, computer_id, TRUE),
          connections |->
              IF a \in DOMAIN connections
              THEN [connections EXCEPT ![a] =
                       [user_id |-> user_id, computer_id |-> computer_id]]
              ELSE connections,
          computer_connections |->
              Put(computer_connections, <<user_id, computer_id>>, a)]
    ELSE [reply |-> Error("Computer not registered for user"),
          users |-> us,
          connections |-> connections,
          computer_connections |-> computer_connections]

ErrNoAuth == "Not authenticated"

\* a mutation: the user id of the connection is not required
handle_register_computer_ungated(a, computer_id) ==
    IF a \in DOMAIN connections
    THEN [reply |-> ServerMessage("ComputerRegistered", NoneVal, 0, computer_id,
                                  NoneVal, NoFolder),
          users |-> register_computer(users, connections[a].user_id, computer_id)]
    ELSE [reply |-> Error(ErrNoAuth), users |-> users]

\* the id of the new computer is built from its name and uuid_simple()
handle_register_computer(a, computer_id) ==
    IF a \in DOMAIN connections /\ connections[a].user_id # NoneVal
    THEN [reply |-> ServerMessage("ComputerRegistered", NoneVal, 0, computer_id,
                                  NoneVal, NoFolder),
          users |-> register_computer(users, connections[a].user_id, computer_id)]
    ELSE [reply |-> Error(ErrNoAuth), users |-> users]

\* under the read lock: the user of the connection, or an error
handle_get_user_state(a) ==
    IF a \in DOMAIN connections /\ connections[a].user_id # NoneVal
    THEN IF connections[a].user_id \in DOMAIN users
         THEN [reply |-> ServerMessage("UserState", NoneVal, 0, connections[a].user_id,
                                       NoneVal, NoFolder),
               users |-> users]
         ELSE [reply |-> Error("User not found"), users |-> users]
    ELSE [reply |-> Error(ErrNoAuth), users |-> users]

handle_create_sync_folder(a, folder_id) ==
    IF conn_authenticated(a)
    THEN LET fld == [origin_computer |-> connections[a].computer_id,
                     backup_computers |-> <<>>, is_synced |-> TRUE,
                     pending_operations |-> 0]
         IN [reply |-> ServerMessage("SyncFolderCreated", folder_id, 0, NoneVal,
                                     NoneVal, fld),
             users |-> create_sync_folder(users, connections[a].user_id, folder_id, fld)]
    ELSE [reply |-> Error(ErrNoComputerAuth), users |-> users]

handle_join_sync_folder(a, folder_id) ==
    IF conn_authenticated(a)
    THEN LET u == connections[a].user_id
             us == join_sync_folder(users, u, folder_id, connections[a].computer_id)
         IN IF has_folder(users, u, folder_id)
            THEN [reply |-> ServerMessage("JoinedSyncFolder", folder_id, 0, NoneVal,
                                          NoneVal, get_folder(us, u, folder_id)),
                  users |-> us]
            ELSE [reply |-> Error("Folder not found"), users |-> us]
    ELSE [reply |-> Error(ErrNoComputerAuth), users |-> users]

handle_leave_sync_folder(a, folder_id) ==
    IF conn_authenticated(a)
    THEN [reply |-> ServerMessage("LeftSyncFolder", folder_id, 0, NoneVal, NoneVal,
                                  NoFolder),
          users |-> leave_sync_folder(users, connections[a].user_id, folder_id,
                                      connections[a].computer_id)]
    ELSE [reply |-> Error(ErrNoComputerAuth), users |-> users]

handle_request_origin_switch(a, folder_id) ==
    IF conn_authenticated(a)
    THEN LET c == connections[a].computer_id
             r == switch_origin(users, connections[a].user_id, folder_id, c)
         IN IF r.res = "Ok"
            THEN [reply |-> ServerMessage("OriginSwitched", folder_id, 0, NoneVal, c,
                                          NoFolder),
                  users |-> r.users]
            ELSE [reply |-> ServerMessage("OriginSwitchDenied", folder_id, 0, r.res,
                                          NoneVal, NoFolder),
                  users |-> r.users]
    ELSE [reply |-> Error(ErrNoComputerAuth), users |-> users]

\* handle_folder_operation up to drop(state_write); for an accepted operation the
\* response is sent after the broadcast.
handle_folder_operation(a, folder_id) ==
    IF ~conn_authenticated(a)
    THEN [accepted |-> FALSE, reply |-> Error(ErrNoComputerAuth), users |-> users,
          pending_operations |-> pending_operations,
          operation_counter |-> operation_counter]
    ELSE LET u == connections[a].user_id IN
         IF ~is_origin(users, u, folder_id, connections[a].computer_id)
         THEN [accepted |-> FALSE,
               reply |-> Error("Only origin computer can send operations"),
               users |-> users,
               pending_operations |-> pending_operations,
               operation_counter |-> operation_counter]
         ELSE LET operation_id == next_operation_id(operation_counter)
                  us == increment_pending_operations(users, u, folder_id)
                  backup_count == get_backup_count(us, u, folder_id)
              IN [accepted |-> TRUE,
                  reply |-> ServerMessage("OperationComplete", NoneVal, operation_id,
                                          NoneVal, NoneVal, NoFolder),
                  users |-> us,
                  pending_operations |->
                      track_operation(pending_operations, folder_id, operation_id,
                                      backup_count),
                  operation_counter |-> operation_id]

\* the ClientMessage::Ack arm of handle_message: a log line, nothing else
handle_ack(a, operation_id) ==
    [reply |-> NoResponse, users |-> users,
     pending_operations |-> pending_operations]

\* a mutation: the computer of a dropped connection stays online
handle_disconnect_keep_online(a) ==
    IF conn_authenticated(a)
    THEN [connections |-> Del(connections, a),
          computer_connections |->
              Del(computer_connections,
                  <<connections[a].user_id, connections[a].computer_id>>),
          users |-> users]
    ELSE [connections |-> Del(connections, a),
          computer_connections |-> computer_connections,
          users |-> users]

handle_disconnect(a) ==
    IF conn_authenticated(a)
    THEN [connections |-> Del(connections, a),
          computer_connections |->
              Del(computer_connections,
                  <<connections[a].user_id, connections[a].computer_id>>),
          users |-> set_computer_online(users, connections[a].user_id,
                                        connections[a].computer_id, FALSE)]
    ELSE [connections |-> Del(connections, a),
          computer_connections |-> computer_connections,
          users |-> users]

\* ------------------------------------------------------------------ seeding
\* The embedding process seeds the registry through the public ServerState API
\* (the state handle comes from ServerReady) before clients connect: no client
\* message can register the first computer of a user.  Seeded folders are well
\* formed: the origin is not a backup, no backup is listed twice, and is_synced
\* says whether pending_operations is 0.  Computer ids are opaque, so the origin
\* of a seeded folder is the first computer of its user and its backups are
\* listed in the order of ComputerOrder.
Ordered(cs) ==
    {s \in UNION {[1..n -> cs] : n \in 0..Cardinality(cs)} :
        \A i, j \in 1..Len(s) : i < j =>
            \E k, l \in 1..Len(ComputerOrder) :
                k < l /\ ComputerOrder[k] = s[i] /\ ComputerOrder[l] = s[j]}

SeedFolders(cs) ==
    LET o == FirstFree(ComputerOrder, ComputerIds \ cs) IN
    {[origin_computer |-> o, backup_computers |-> b, is_synced |-> (p = 0),
      pending_operations |-> p] :
        b \in Ordered(cs \ {o}), p \in {0, SeedPending}}

\* user u1 owns computers c1 and c2, user u2 owns c3; all are offline
SeedRegistry ==
    [u \in Users |->
        [computers |-> [c \in IF u = "u1" THEN {"c1", "c2"} ELSE {"c3"} |-> FALSE],
         sync_folders |-> <<>>]]

\* the registry alone, or with one seeded folder of user u1
SeedUsers ==
    {SeedRegistry} \cup
    {create_sync_folder(SeedRegistry, "u1", FolderOrder[1], fld) :
        fld \in SeedFolders(DOMAIN SeedRegistry["u1"].computers)}

\* ------------------------------------------------------------------ connection task
\* handle_connection up to the select! loop: subscribe, register, Welcome.
Connect(a) ==
    /\ task[a] = NotAccepted
    /\ \A b \in Addrs : b < a => task[b] # NotAccepted
    /\ connections' = Put(connections, a, [user_id |-> NoneVal, computer_id |-> NoneVal])
    /\ task' = [task EXCEPT ![a] = Idle]
    /\ rx' = [rx EXCEPT ![a] = Len(bcast) + 1]
    /\ UNCHANGED <<users, computer_connections, pending_operations, operation_counter,
                   bcast, ws_out>>
    /\ UNCHANGED agent_vars
    /\ UNCHANGED syncer_vars

\* the close and error arms of the select! loop: handle_disconnect, then break
Disconnect(a) ==
    /\ AtSelect(a)
    /\ connections' = handle_disconnect(a).connections
    /\ computer_connections' = handle_disconnect(a).computer_connections
    /\ users' = handle_disconnect(a).users
    /\ task' = [task EXCEPT ![a] = Closed]
    /\ UNCHANGED <<pending_operations, operation_counter, bcast, rx, ws_out>>
    /\ UNCHANGED agent_vars
    /\ UNCHANGED syncer_vars

\* index in bcast of the oldest message the broadcast channel still retains
OldestRetained ==
    IF Len(bcast) > broadcast_capacity THEN Len(bcast) - broadcast_capacity + 1 ELSE 1

\* the broadcast branch of the select! loop: broadcast_rx.recv() yields the next
\* message of the channel
RecvBroadcast(a) ==
    /\ AtSelect(a)
    /\ rx[a] <= Len(bcast)
    /\ rx[a] >= OldestRetained
    /\ rx' = [rx EXCEPT ![a] = @ + 1]
    /\ task' = [task EXCEPT ![a] =
                    [pc |-> "forward", folder_id |-> bcast[rx[a]].folder_id,
                     operation_id |-> bcast[rx[a]].operation_id]]
    /\ UNCHANGED <<users, connections, computer_connections, pending_operations,
                   operation_counter, bcast, ws_out>>
    /\ UNCHANGED agent_vars
    /\ UNCHANGED syncer_vars

\* the broadcast branch when the receiver has fallen behind the channel:
\* recv() yields Err(Lagged) and moves the receiver to the oldest retained
\* message; the pattern Ok(broadcast_msg) does not match, nothing is forwarded,
\* and the branch is polled again once the loop has handled a WebSocket frame
\* (a ping or any other frame without effect on the broker state)
RecvLagged(a) ==
    /\ AtSelect(a)
    /\ rx[a] < OldestRetained
    /\ rx' = [rx EXCEPT ![a] = OldestRetained]
    /\ UNCHANGED <<users, connections, computer_connections, pending_operations,
                   operation_counter, task, bcast, ws_out>>
    /\ UNCHANGED agent_vars
    /\ UNCHANGED syncer_vars

\* the broadcast branch, after recv: should_receive_broadcast under the read
\* lock, then the forward to the WebSocket
ForwardBroadcast(a) ==
    /\ task[a].pc = "forward"
    /\ ws_out' = IF should_receive_broadcast(a, task[a].folder_id)
                 THEN [ws_out EXCEPT ![a] =
                          Append(@, [folder_id |-> task[a].folder_id,
                                     operation_id |-> task[a].operation_id])]
                 ELSE ws_out
    /\ task' = [task EXCEPT ![a] = Idle]
    /\ UNCHANGED <<users, connections, computer_connections, pending_operations,
                   operation_counter, bcast, rx>>
    /\ UNCHANGED agent_vars
    /\ UNCHANGED syncer_vars

\* ------------------------------------------------------------------ messages
Authenticate(a, u, c) ==
    /\ AtSelect(a)
    /\ users' = handle_authenticate(a, u, c).users
    /\ connections' = handle_authenticate(a, u, c).connections
    /\ computer_connections' = handle_authenticate(a, u, c).computer_connections
    /\ UNCHANGED <<pending_operations, operation_counter, task, bcast, rx, ws_out>>
    /\ UNCHANGED agent_vars
    /\ UNCHANGED syncer_vars

CreateSyncFolder(a) ==
    /\ AtSelect(a)
    /\ FirstFree(FolderOrder, UsedFolderIds) # NoneVal
    /\ users' = handle_create_sync_folder(a, FirstFree(FolderOrder, UsedFolderIds)).users
    /\ UNCHANGED <<connections, computer_connections, pending_operations,
                   operation_counter, task, bcast, rx, ws_out>>
    /\ UNCHANGED agent_vars
    /\ UNCHANGED syncer_vars

JoinSyncFolder(a, f) ==
    /\ AtSelect(a)
    /\ users' = handle_join_sync_folder(a, f).users
    /\ UNCHANGED <<connections, computer_connections, pending_operations,
                   operation_counter, task, bcast, rx, ws_out>>
    /\ UNCHANGED agent_vars
    /\ UNCHANGED syncer_vars

LeaveSyncFolder(a, f) ==
    /\ AtSelect(a)
    /\ users' = handle_leave_sync_folder(a, f).users
    /\ UNCHANGED <<connections, computer_connections, pending_operations,
                   operation_counter, task, bcast, rx, ws_out>>
    /\ UNCHANGED agent_vars
    /\ UNCHANGED syncer_vars

RequestOriginSwitch(a, f) ==
    /\ AtSelect(a)
    /\ users' = handle_request_origin_switch(a, f).users
    /\ UNCHANGED <<connections, computer_connections, pending_operations,
                   operation_counter, task, bcast, rx, ws_out>>
    /\ UNCHANGED agent_vars
    /\ UNCHANGED syncer_vars

\* handle_folder_operation: the critical section on the state lock
FolderOperation(a, f) ==
    /\ AtSelect(a)
    /\ LET r == handle_folder_operation(a, f) IN
          /\ r.accepted => operation_counter < MaxOps
          /\ users' = r.users
          /\ pending_operations' = r.pending_operations
          /\ operation_counter' = r.operation_counter
          /\ task' = IF r.accepted
                     THEN [task EXCEPT ![a] =
                              [pc |-> "send", folder_id |-> f,
                               operation_id |-> r.reply.operation_id]]
                     ELSE task
    /\ UNCHANGED <<connections, computer_connections, bcast, rx, ws_out>>
    /\ UNCHANGED agent_vars
    /\ UNCHANGED syncer_vars

\* handle_folder_operation after drop(state_write): broadcast_tx.send, then the
\* OperationComplete response
FolderOperationSend(a) ==
    /\ task[a].pc = "send"
    /\ bcast' = Append(bcast, [folder_id |-> task[a].folder_id,
                               operation_id |-> task[a].operation_id])
    /\ task' = [task EXCEPT ![a] = Idle]
    /\ UNCHANGED <<users, connections, computer_connections, pending_operations,
                   operation_counter, rx, ws_out>>
    /\ UNCHANGED agent_vars
    /\ UNCHANGED syncer_vars

Ack(a, op) ==
    /\ AtSelect(a)
    /\ users' = handle_ack(a, op).users
    /\ pending_operations' = handle_ack(a, op).pending_operations
    /\ UNCHANGED <<connections, computer_connections, operation_counter, task,
                   bcast, rx, ws_out>>
    /\ UNCHANGED agent_vars
    /\ UNCHANGED syncer_vars

RegisterComputer(a) ==
    /\ AtSelect(a)
    /\ FirstFree(RegisterOrder, UsedComputerIds) # NoneVal
    /\ users' = handle_register_computer(a, FirstFree(RegisterOrder, UsedComputerIds)).users
    /\ UNCHANGED <<connections, computer_connections, pending_operations,
                   operation_counter, task, bcast, rx, ws_out>>
    /\ UNCHANGED agent_vars
    /\ UNCHANGED syncer_vars

GetUserState(a) ==
    /\ AtSelect(a)
    /\ users' = handle_get_user_state(a).users
    /\ UNCHANGED <<connections, computer_connections, pending_operations,
                   operation_counter, task, bcast, rx, ws_out>>
    /\ UNCHANGED agent_vars
    /\ UNCHANGED syncer_vars

\* ------------------------------------------------------------------ specification
\* an agent that has a folder and has processed no operation; the broker
\* specifications leave it so
NoPlan == [content |-> <<>>, chunk_size |-> 0, id |-> 0, path |-> NoneVal]

\* Result<RelativePath, RelativePathError>
PathOk(path) == [ok |-> TRUE, err |-> "", path |-> path]

PathErr(e) == [ok |-> FALSE, err |-> e, path |-> <<>>]

\* no path string is being converted
NoPath == [input |-> <<>>, parsed |-> <<>>, json |-> <<>>, back |-> <<>>]

\* no thread is inside handle_chunk or handle_end
NoThreads ==
    [chunk |-> "none", end |-> "none", id |-> 0, index |-> 0, data |-> <<>>,
     path |-> NoneVal, hash |-> NoneVal, chunk_size |-> 0, pending_end |-> <<>>,
     in_range |-> TRUE, commits |-> 0]

AgentIdle ==
    /\ transfer_states = <<>>
    /\ temp_files = <<>>
    /\ dest_files = <<>>
    /\ panicked = FALSE
    /\ plan = NoPlan
    /\ delivered = {}
    /\ threads = NoThreads
    /\ rpath = NoPath

\* SyncOptions::default()
DefaultOptions ==
    [when_missing_preserve_backup |-> FALSE, when_conflict_preserve_backup |-> FALSE,
     when_delete_keep_backup |-> FALSE]

NoSync == [pc |-> "none", original_relatives |-> {}, backup_relatives |-> {},
           todo |-> {}, failed |-> "none", written |-> {}]

\* no Synchronizer was built; the broker and agent specifications leave it so
\* no event was received
NoEvents == [phase |-> "collect", batch |-> <<>>, failed |-> FALSE, race |-> NoneVal]

SyncerIdle ==
    /\ origin_fs = <<>>
    /\ backup_fs = <<>>
    /\ original = <<>>
    /\ backup = <<>>
    /\ path_mapping = {}
    /\ options = DefaultOptions
    /\ sync = NoSync
    /\ before = <<>>
    /\ events = NoEvents

\* Spec: topology and operation accounting.  The broker is seeded and has accepted
\* three connections; the client of connection a holds the id of computer
\* ComputerOrder[a] and may authenticate with it under any user id.
Init ==
    /\ users \in SeedUsers
    /\ connections = [a \in Addrs |-> [user_id |-> NoneVal, computer_id |-> NoneVal]]
    /\ computer_connections = <<>>
    /\ pending_operations = <<>>
    /\ operation_counter = 0
    /\ task = [a \in Addrs |-> Idle]
    /\ bcast = <<>>
    /\ rx = [a \in Addrs |-> 1]
    /\ ws_out = [a \in Addrs |-> <<>>]
    /\ AgentIdle
    /\ SyncerIdle

Next ==
    \/ \E a \in Addrs, u \in Users : Authenticate(a, u, ComputerOrder[a])
    \/ \E a \in Addrs : Disconnect(a)
    \/ \E a \in Addrs : CreateSyncFolder(a)
    \/ \E a \in Addrs, f \in FolderIds : JoinSyncFolder(a, f)
    \/ \E a \in Addrs, f \in FolderIds : LeaveSyncFolder(a, f)
    \/ \E a \in Addrs, f \in FolderIds : RequestOriginSwitch(a, f)
    \/ \E a \in Addrs, f \in FolderIds : FolderOperation(a, f)
    \/ \E a \in Addrs : FolderOperationSend(a)
    \/ \E a \in Addrs, op \in 1..MaxOps : Ack(a, op)

Spec == Init /\ [][Next]_vars

\* SpecBroadcast: the fan-out of one seeded folder.  Connections 1 and 2 belong
\* to clients of computer c1, connection 3 to a client of c2; the runtime is
\* multi-threaded, so every step of one task may fall between two steps of
\* another.
BroadcastComputer(a) == IF a = 3 THEN "c2" ELSE "c1"

InitBroadcast ==
    /\ users \in SeedUsers
    /\ has_folder(users, "u1", FolderOrder[1])
    /\ connections = <<>>
    /\ computer_connections = <<>>
    /\ pending_operations = <<>>
    /\ operation_counter = 0
    /\ task = [a \in Addrs |-> NotAccepted]
    /\ bcast = <<>>
    /\ rx = [a \in Addrs |-> 0]
    /\ ws_out = [a \in Addrs |-> <<>>]
    /\ AgentIdle
    /\ SyncerIdle

NextBroadcast ==
    \/ \E a \in Addrs : Connect(a)
    \/ \E a \in Addrs : Authenticate(a, "u1", BroadcastComputer(a))
    \/ \E a \in Addrs : Disconnect(a)
    \/ \E a \in Addrs : RecvBroadcast(a)
    \/ \E a \in Addrs : RecvLagged(a)
    \/ \E a \in Addrs : ForwardBroadcast(a)
    \/ \E a \in Addrs : JoinSyncFolder(a, FolderOrder[1])
    \/ \E a \in Addrs, f \in FolderIds : FolderOperation(a, f)
    \/ \E a \in Addrs : FolderOperationSend(a)

SpecBroadcast == InitBroadcast /\ [][NextBroadcast]_vars

\* SpecSession: the life of two connections, from accept to close, with every
\* client message of the registry, on a broker seeded with the computers alone.
\* The client of connection a holds the id of computer ComputerOrder[a] and
\* learns the id of a computer registered meanwhile; it may authenticate, again
\* and again, under any user id with either.
SessionAddrs == 1..2

SessionComputerIds(a) == {ComputerOrder[a]} \cup SeqSet(RegisterOrder)

SessionFolder == FolderOrder[1]

InitSession ==
    /\ users = SeedRegistry
    /\ connections = <<>>
    /\ computer_connections = <<>>
    /\ pending_operations = <<>>
    /\ operation_counter = 0
    /\ task = [a \in Addrs |-> NotAccepted]
    /\ bcast = <<>>
    /\ rx = [a \in Addrs |-> 0]
    /\ ws_out = [a \in Addrs |-> <<>>]
    /\ AgentIdle
    /\ SyncerIdle

NextSession ==
    \/ \E a \in SessionAddrs : Connect(a)
    \/ \E a \in SessionAddrs, u \in Users :
          \E c \in SessionComputerIds(a) : Authenticate(a, u, c)
    \/ \E a \in SessionAddrs : RegisterComputer(a)
    \/ \E a \in SessionAddrs : GetUserState(a)
    \/ \E a \in SessionAddrs : CreateSyncFolder(a)
    \/ \E a \in SessionAddrs : JoinSyncFolder(a, SessionFolder)
    \/ \E a \in SessionAddrs : LeaveSyncFolder(a, SessionFolder)
    \/ \E a \in SessionAddrs : RequestOriginSwitch(a, SessionFolder)
    \/ \E a \in SessionAddrs : FolderOperation(a, SessionFolder)
    \/ \E a \in SessionAddrs : FolderOperationSend(a)
    \/ \E a \in SessionAddrs, op \in 1..MaxOps : Ack(a, op)
    \/ \E a \in SessionAddrs : Disconnect(a)

SpecSession == InitSession /\ [][NextSession]_vars
\* ------------------------------------------------------------------ properties
\* operation ids with a row in pending_operations; rows are never removed, so
\* these are all the ids issued so far
IssuedIds == UNION {DOMAIN pending_operations[f] : f \in DOMAIN pending_operations}

\* the rows of a folder in pending_operations
Rows(f) == IF f \in DOMAIN pending_operations THEN pending_operations[f] ELSE <<>>

\* C1: the origin of a folder changes in a step only if some connection waiting
\* in its select! loop is authenticated as a computer of the folder's user that
\* is in backup_computers, the folder has is_synced and pending_operations = 0
\* before the step, and that computer is the origin after it.
C1_SwitchOnlyWhenAllowed ==
    [][\A u \in Users, f \in FolderIds :
          (/\ has_folder(users, u, f)
           /\ get_folder(users', u, f).origin_computer
                  # get_folder(users, u, f).origin_computer)
          => \E a \in Addrs :
                /\ AtSelect(a)
                /\ conn_authenticated(a)
                /\ connections[a].user_id = u
                /\ Contains(get_folder(users, u, f).backup_computers,
                            connections[a].computer_id)
                /\ get_folder(users, u, f).is_synced
                /\ get_folder(users, u, f).pending_operations = 0
                /\ get_folder(users', u, f).origin_computer
                       = connections[a].computer_id]_vars

\* a switch was granted: seeded folders have origin c1, folders created by c2
\* have no backups until a join, and a join leaves the folder not synced
C1_Witness ==
    \E f \in FolderIds :
        /\ has_folder(users, "u1", f)
        /\ get_folder(users, "u1", f).origin_computer = "c2"
        /\ get_folder(users, "u1", f).backup_computers = <<"c1">>
        /\ get_folder(users, "u1", f).is_synced

\* C2: in every reachable state every folder has is_synced = TRUE if and only
\* if its pending_operations is 0.
C2_SyncedIffNoPending ==
    \A u \in Users, f \in FolderIds :
        has_folder(users, u, f) =>
            (get_folder(users, u, f).is_synced
                <=> get_folder(users, u, f).pending_operations = 0)

\* C3: in every reachable state the origin_computer of a folder is not one of
\* its backup_computers.
C3_OriginNotBackup ==
    \A u \in Users, f \in FolderIds :
        has_folder(users, u, f) =>
            ~Contains(get_folder(users, u, f).backup_computers,
                      get_folder(users, u, f).origin_computer)

\* C4: a step that changes the origin of a folder is the whole granted switch:
\* the new origin is the requester, the requester is not a backup any more, the
\* old origin is appended to the backups that remain, origin and backups together
\* are the same set of computers, the sync fields and everything else in the
\* broker state are as before, and the response to the requester is
\* OriginSwitched with the folder id and the requester as new_origin.
C4_GrantedSwitchResult ==
    [][\A u \in Users, f \in FolderIds :
          (/\ has_folder(users, u, f)
           /\ get_folder(users', u, f).origin_computer
                  # get_folder(users, u, f).origin_computer)
          => LET old == get_folder(users, u, f)
                 new == get_folder(users', u, f)
                 req == new.origin_computer
             IN /\ ~Contains(new.backup_computers, req)
                /\ new.backup_computers
                       = Append(Retain(old.backup_computers, req), old.origin_computer)
                /\ SeqSet(new.backup_computers) \cup {new.origin_computer}
                       = SeqSet(old.backup_computers) \cup {old.origin_computer}
                /\ new.is_synced = old.is_synced
                /\ new.pending_operations = old.pending_operations
                /\ users' = set_folder(users, u, f, new)
                /\ UNCHANGED <<connections, computer_connections, pending_operations,
                               operation_counter, task, bcast, rx, ws_out>>
                /\ \E a \in Addrs :
                      /\ AtSelect(a)
                      /\ conn_authenticated(a)
                      /\ connections[a].user_id = u
                      /\ connections[a].computer_id = req
                      /\ handle_request_origin_switch(a, f).reply
                             = ServerMessage("OriginSwitched", f, 0, NoneVal, req,
                                             NoFolder)]_vars

\* the requester of a granted switch is the origin and still connected, the old
\* origin is a backup
C4_Witness ==
    \E f \in FolderIds, a \in Addrs :
        /\ conn_authenticated(a)
        /\ connections[a].computer_id = "c2"
        /\ is_origin(users, "u1", f, "c2")
        /\ is_backup(users, "u1", f, "c1")
        /\ is_folder_synced(users, "u1", f)

\* C5: whenever the handler answers a RequestOriginSwitch with
\* OriginSwitchDenied, it leaves every folder as it is, the response carries the
\* folder id of the request, the reason is the not-synced text if the folder is
\* not synced, and the only-backups text if the folder is synced and the
\* requester is not one of its backups.
C5_DeniedSwitch ==
    \A a \in Addrs, f \in FolderIds :
        LET r == handle_request_origin_switch(a, f)
            u == connections[a].user_id
            fld == get_folder(users, u, f)
        IN (AtSelect(a) /\ r.reply.tag = "OriginSwitchDenied") =>
              /\ r.users = users
              /\ r.reply.folder_id = f
              /\ (has_folder(users, u, f)
                      /\ (~fld.is_synced \/ fld.pending_operations # 0))
                   => r.reply.text = ErrNotSynced
              /\ (has_folder(users, u, f) /\ fld.is_synced
                      /\ fld.pending_operations = 0
                      /\ ~Contains(fld.backup_computers, connections[a].computer_id))
                   => r.reply.text = ErrNotBackup

\* both denials are about to be answered: a backup of a folder that is not
\* synced, and the origin of a synced folder
C5_Witness ==
    /\ \E a \in Addrs, f \in FolderIds :
          /\ AtSelect(a)
          /\ handle_request_origin_switch(a, f).reply.tag = "OriginSwitchDenied"
          /\ handle_request_origin_switch(a, f).reply.text = ErrNotSynced
          /\ is_backup(users, connections[a].user_id, f, connections[a].computer_id)
    /\ \E a \in Addrs, f \in FolderIds :
          /\ AtSelect(a)
          /\ handle_request_origin_switch(a, f).reply.tag = "OriginSwitchDenied"
          /\ handle_request_origin_switch(a, f).reply.text = ErrNotBackup
          /\ is_folder_synced(users, connections[a].user_id, f)

\* C6: a step in which a connection task accepts a FolderOperation (it moves from
\* select! to the broadcast send) is made by a connection authenticated as the
\* origin of the folder; the id it carries was never issued before; in the same
\* step the folder's pending_operations grows by exactly 1, the folder is not
\* synced, its topology is as before, the row of the new id holds the number of
\* backup_computers, no other row changes, and the OperationComplete response
\* carries the same id.
C6_AcceptedOperation ==
    [][\A a \in Addrs :
          (task[a].pc # "send" /\ task'[a].pc = "send")
          => LET f == task'[a].folder_id
                 id == task'[a].operation_id
                 u == connections[a].user_id
                 old == get_folder(users, u, f)
                 new == get_folder(users', u, f)
             IN /\ AtSelect(a)
                /\ conn_authenticated(a)
                /\ is_origin(users, u, f, connections[a].computer_id)
                /\ id \notin IssuedIds
                /\ \A b \in Addrs : task[b].pc = "send" => task[b].operation_id # id
                /\ \A i \in 1..Len(bcast) : bcast[i].operation_id # id
                /\ new.pending_operations = old.pending_operations + 1
                /\ ~new.is_synced
                /\ new.origin_computer = old.origin_computer
                /\ new.backup_computers = old.backup_computers
                /\ users' = set_folder(users, u, f, new)
                /\ pending_operations'
                       = Put(pending_operations, f,
                             Put(Rows(f), id, Len(old.backup_computers)))
                /\ handle_folder_operation(a, f).reply
                       = ServerMessage("OperationComplete", NoneVal, id, NoneVal,
                                       NoneVal, NoFolder)]_vars

\* an operation of a folder with a backup was accepted and is about to be
\* broadcast
C6_Witness ==
    \E a \in Addrs :
        /\ task[a].pc = "send"
        /\ Rows(task[a].folder_id)[task[a].operation_id] = 1
        /\ get_folder(users, connections[a].user_id, task[a].folder_id)
               .pending_operations = 1

\* C7: an Ack from a connection authenticated as a backup of a folder, for an
\* operation of that folder with acknowledgements outstanding, lowers the count
\* of the operation by 1; at 0 the row is removed and the folder's
\* pending_operations is lowered by 1.
C7_AckAccounting ==
    \A a \in Addrs, f \in FolderIds, op \in 1..MaxOps :
        LET u == connections[a].user_id
            r == handle_ack(a, op)
        IN (/\ AtSelect(a)
            /\ conn_authenticated(a)
            /\ is_backup(users, u, f, connections[a].computer_id)
            /\ op \in DOMAIN Rows(f)
            /\ Rows(f)[op] > 0)
           => /\ f \in DOMAIN r.pending_operations
              /\ IF Rows(f)[op] = 1
                 THEN /\ op \notin DOMAIN r.pending_operations[f]
                      /\ get_folder(r.users, u, f).pending_operations
                             = get_folder(users, u, f).pending_operations - 1
                 ELSE /\ op \in DOMAIN r.pending_operations[f]
                      /\ r.pending_operations[f][op] = Rows(f)[op] - 1

\* C8: a folder whose accepted operations are all broadcast, none with an
\* acknowledgement outstanding, and whose pending_operations counts only those
\* operations, has pending_operations = 0 and is synced.
C8_SyncedAgain ==
    \A u \in Users, f \in FolderIds :
        (/\ has_folder(users, u, f)
         /\ DOMAIN Rows(f) # {}
         /\ \A op \in DOMAIN Rows(f) : Rows(f)[op] = 0
         /\ \A a \in Addrs : ~(task[a].pc = "send" /\ task[a].folder_id = f)
         /\ get_folder(users, u, f).pending_operations = Cardinality(DOMAIN Rows(f)))
        => /\ get_folder(users, u, f).pending_operations = 0
           /\ get_folder(users, u, f).is_synced

\* C9: the id taken by a step that accepts a FolderOperation is larger than every
\* id issued before it, whatever the folder and the connection, and it is 1 if
\* none was issued before.
C9_IdsIncrease ==
    [][\A a \in Addrs :
          (task[a].pc # "send" /\ task'[a].pc = "send")
          => /\ \A i \in IssuedIds : i < task'[a].operation_id
             /\ task'[a].operation_id \in IssuedIds'
             /\ IssuedIds = {} => task'[a].operation_id = 1]_vars

\* two operations were accepted, of two folders or of one
C9_Witness == Cardinality(IssuedIds) >= 2

\* C10: the FolderOperation broadcasts a connection forwards to its WebSocket
\* are, for each folder, in increasing order of operation_id.
C10_BroadcastOrder ==
    \A a \in Addrs :
        \A i, j \in 1..Len(ws_out[a]) :
            (i < j /\ ws_out[a][i].folder_id = ws_out[a][j].folder_id)
            => ws_out[a][i].operation_id < ws_out[a][j].operation_id

\* C11: a FolderOperation from a connection authenticated as a computer that is
\* not the origin of the folder (a backup, a computer of another user, or any
\* computer when the folder is unknown) is answered Error and the handler leaves
\* users, pending_operations and operation_counter as they are; only a
\* connection of the origin moves on to the broadcast send, and the broadcast
\* channel grows only by the message of a task that was accepted.
C11_NonOriginOperationDenied ==
    /\ [](\A a \in Addrs, f \in FolderIds :
             LET r == handle_folder_operation(a, f) IN
             (/\ AtSelect(a)
              /\ conn_authenticated(a)
              /\ ~(/\ has_folder(users, connections[a].user_id, f)
                   /\ get_folder(users, connections[a].user_id, f).origin_computer
                          = connections[a].computer_id))
             => /\ r.reply.tag = "Error"
                /\ ~r.accepted
                /\ r.users = users
                /\ r.pending_operations = pending_operations
                /\ r.operation_counter = operation_counter)
    /\ [][/\ \A a \in Addrs :
                (task[a].pc # "send" /\ task'[a].pc = "send")
                => /\ conn_authenticated(a)
                   /\ has_folder(users, connections[a].user_id, task'[a].folder_id)
                   /\ get_folder(users, connections[a].user_id, task'[a].folder_id)
                          .origin_computer = connections[a].computer_id
          /\ bcast' # bcast
                => \E a \in Addrs :
                      /\ task[a].pc = "send"
                      /\ bcast' = Append(bcast, [folder_id |-> task[a].folder_id,
                                                 operation_id |-> task[a].operation_id])
       ]_vars

\* after an accepted operation, a backup of the folder, a computer of another
\* user and the origin asking for an unknown folder are all about to be refused
C11_Witness ==
    /\ operation_counter > 0
    /\ \E a \in Addrs, f \in FolderIds :
          /\ AtSelect(a) /\ conn_authenticated(a)
          /\ is_backup(users, connections[a].user_id, f, connections[a].computer_id)
          /\ ~is_origin(users, connections[a].user_id, f, connections[a].computer_id)
          /\ f \in DOMAIN pending_operations
    /\ \E a \in Addrs, f \in FolderIds :
          /\ AtSelect(a) /\ conn_authenticated(a)
          /\ connections[a].user_id = "u2"
          /\ has_folder(users, "u1", f)
    /\ \E a \in Addrs, f \in FolderIds :
          /\ AtSelect(a) /\ conn_authenticated(a)
          /\ f \notin UsedFolderIds

\* C12: a broadcast is forwarded to the WebSocket of a connection only by the
\* forward step of its receive loop, only if the connection is authenticated and
\* its computer is a backup of the broadcast's folder at that step, and never if
\* its computer is the origin of that folder (the origin does not receive its
\* own operation); a connection that is not authenticated is forwarded nothing.
C12_BroadcastRouting ==
    [][\A a \in Addrs :
          ws_out'[a] # ws_out[a]
          => /\ task[a].pc = "forward"
             /\ ws_out'[a] = Append(ws_out[a],
                                    [folder_id |-> task[a].folder_id,
                                     operation_id |-> task[a].operation_id])
             /\ conn_authenticated(a)
             /\ is_backup(users, connections[a].user_id, task[a].folder_id,
                          connections[a].computer_id)
             /\ ~is_origin(users, connections[a].user_id, task[a].folder_id,
                           connections[a].computer_id)]_vars

\* C13: no broadcast is lost or duplicated on its way to a backup.  A task that
\* leaves the broadcast send has put exactly its own message on the channel; a
\* connection authenticated as a backup (and not the origin) of the folder of the
\* next message of its receiver takes the messages of the channel one by one,
\* each handed to the forward step; and the forward step of such a connection
\* appends the message to its WebSocket exactly once.
C13_ExactlyOnceDelivery ==
    [][\A a \in Addrs :
          /\ (task[a].pc = "send" /\ task'[a] # task[a])
             => /\ task'[a] = Idle
                /\ bcast' = Append(bcast, [folder_id |-> task[a].folder_id,
                                           operation_id |-> task[a].operation_id])
          /\ (/\ AtSelect(a)
              /\ conn_authenticated(a)
              /\ rx[a] <= Len(bcast)
              /\ is_backup(users, connections[a].user_id, bcast[rx[a]].folder_id,
                           connections[a].computer_id)
              /\ ~is_origin(users, connections[a].user_id, bcast[rx[a]].folder_id,
                            connections[a].computer_id)
              /\ rx'[a] # rx[a])
             => /\ rx'[a] = rx[a] + 1
                /\ task'[a] = [pc |-> "forward",
                               folder_id |-> bcast[rx[a]].folder_id,
                               operation_id |-> bcast[rx[a]].operation_id]
          /\ (/\ task[a].pc = "forward"
              /\ task'[a] # task[a]
              /\ conn_authenticated(a)
              /\ is_backup(users, connections[a].user_id, task[a].folder_id,
                           connections[a].computer_id)
              /\ ~is_origin(users, connections[a].user_id, task[a].folder_id,
                            connections[a].computer_id))
             => ws_out'[a] = Append(ws_out[a],
                                    [folder_id |-> task[a].folder_id,
                                     operation_id |-> task[a].operation_id])]_vars

\* ------------------------------------------------------------------ agent: chunked transfer
\* Folder::process_chunked_transfer and its handlers (crate agent).  FolderRepo
\* hands the operations of a folder to it one at a time (&mut self), so one
\* action is one operation processed to its end.
TransferIds == {1, 2}
Bytes == {0, 1}
DestPaths == {"p"}

\* largest total_size of a Start and longest data of a Chunk
MaxSize == 2
\* largest chunk_size of a Start
MaxChunkSize == 1
\* largest index of a Chunk
MaxIndex == 2

FileContents(n) == UNION {[1..k -> Bytes] : k \in 0..n}

\* blake3 of a file content: equal contents, equal hashes; different contents
\* are taken to have different hashes
Hash(content) == [blake3 |-> content]

\* File::create followed by set_len(total_size): a file of zero bytes
ZeroFile(n) == [i \in 1..n |-> 0]

\* a mutation: the data is appended, whatever the offset
WriteAppend(content, offset, data) == content \o data

\* seek(Start(offset)) and write_all(data) on a file opened for writing: a gap
\* between the end of the file and the offset reads as zeros, and writing no
\* byte leaves the file as it is
WriteAt(content, offset, data) ==
    IF data = <<>> THEN content
    ELSE LET last == offset + Len(data)
             n == IF Len(content) > last THEN Len(content) ELSE last
         IN [i \in 1..n |->
                IF i > offset /\ i <= last THEN data[i - offset]
                ELSE IF i <= Len(content) THEN content[i] ELSE 0]

\* u64::div_ceil for a divisor that is not 0
div_ceil(a, b) == (a + b - 1) \div b

\* Option<PendingEnd>: <<>> is None, <<e>> is Some(e)
PendingEnd(path, hash) == <<[path |-> path, hash |-> hash]>>

TransferState(total_chunks, chunk_size) ==
    [total_chunks |-> total_chunks, chunk_size |-> chunk_size,
     received_chunks |-> {}, pending_end |-> <<>>]

\* what processing one operation returns and leaves behind
Outcome(res, ts, tmp, dst) ==
    [res |-> res, transfer_states |-> ts, temp_files |-> tmp, dest_files |-> dst]

\* chunk_size = 0 makes div_ceil panic after the temp file was created
handle_start(id, total_size, chunk_size) ==
    IF chunk_size = 0
    THEN Outcome("Panic", transfer_states,
                 Put(temp_files, id, ZeroFile(total_size)), dest_files)
    ELSE Outcome("Ok",
                 Put(transfer_states, id,
                     TransferState(div_ceil(total_size, chunk_size), chunk_size)),
                 Put(temp_files, id, ZeroFile(total_size)), dest_files)

\* a mutation: the commit without the hash check
handle_end_internal_unchecked(ts, tmp, dst, id, path, expected_hash) ==
    IF id \notin DOMAIN tmp
    THEN Outcome("Io", ts, tmp, dst)
    ELSE Outcome("Ok", Del(ts, id), Del(tmp, id), Put(dst, path, tmp[id]))

\* a mutation: a hash mismatch leaves the temp file and the state
handle_end_internal_keep_on_mismatch(ts, tmp, dst, id, path, expected_hash) ==
    IF id \notin DOMAIN tmp
    THEN Outcome("Io", ts, tmp, dst)
    ELSE IF Hash(tmp[id]) # expected_hash
    THEN Outcome("HashMismatch", ts, tmp, dst)
    ELSE Outcome("Ok", Del(ts, id), Del(tmp, id), Put(dst, path, tmp[id]))

\* a mutation: a successful commit leaves the state
handle_end_internal_keep_state(ts, tmp, dst, id, path, expected_hash) ==
    IF id \notin DOMAIN tmp
    THEN Outcome("Io", ts, tmp, dst)
    ELSE IF Hash(tmp[id]) # expected_hash
    THEN Outcome("HashMismatch", Del(ts, id), Del(tmp, id), dst)
    ELSE Outcome("Ok", ts, Del(tmp, id), Put(dst, path, tmp[id]))

\* the commit: hash check, rename onto the destination, state removed
handle_end_internal(ts, tmp, dst, id, path, expected_hash) ==
    IF id \notin DOMAIN tmp
    THEN Outcome("Io", ts, tmp, dst)
    ELSE IF Hash(tmp[id]) # expected_hash
    THEN Outcome("HashMismatch", Del(ts, id), Del(tmp, id), dst)
    ELSE Outcome("Ok", Del(ts, id), Del(tmp, id), Put(dst, path, tmp[id]))

handle_chunk(id, index, data) ==
    IF id \notin DOMAIN transfer_states
    THEN Outcome("TransferNotStarted", transfer_states, temp_files, dest_files)
    ELSE IF id \notin DOMAIN temp_files
    THEN Outcome("Io", transfer_states, temp_files, dest_files)
    ELSE LET state == transfer_states[id]
             tmp == [temp_files EXCEPT
                        ![id] = WriteAt(@, index * state.chunk_size, data)]
             received == state.received_chunks \cup {index}
             ts == [transfer_states EXCEPT ![id].received_chunks = received]
         IN IF state.pending_end # <<>>
               /\ Cardinality(received) = state.total_chunks
            THEN handle_end_internal(ts, tmp, dest_files, id,
                                     state.pending_end[1].path,
                                     state.pending_end[1].hash)
            ELSE Outcome("Ok", ts, tmp, dest_files)

\* a mutation: an End without a transfer state is accepted
handle_end_lenient(id, path, expected_hash) ==
    IF id \notin DOMAIN transfer_states
    THEN Outcome("Ok", transfer_states, temp_files, dest_files)
    ELSE IF Cardinality(transfer_states[id].received_chunks)
                = transfer_states[id].total_chunks
    THEN handle_end_internal(transfer_states, temp_files, dest_files, id, path,
                             expected_hash)
    ELSE Outcome("Ok",
                 [transfer_states EXCEPT
                     ![id].pending_end = PendingEnd(path, expected_hash)],
                 temp_files, dest_files)

handle_end(id, path, expected_hash) ==
    IF id \notin DOMAIN transfer_states
    THEN Outcome("TransferStateNotFound", transfer_states, temp_files, dest_files)
    ELSE IF Cardinality(transfer_states[id].received_chunks)
                = transfer_states[id].total_chunks
    THEN handle_end_internal(transfer_states, temp_files, dest_files, id, path,
                             expected_hash)
    ELSE Outcome("Ok",
                 [transfer_states EXCEPT
                     ![id].pending_end = PendingEnd(path, expected_hash)],
                 temp_files, dest_files)

\* a mutation: Abort drops every transfer state
handle_abort_all(id) ==
    Outcome("Ok", <<>>, Del(temp_files, id), dest_files)

\* the Abort arm of process_chunked_transfer
handle_abort(id) ==
    Outcome("Ok", Del(transfer_states, id), Del(temp_files, id), dest_files)

\* the ChunkedTransferOp messages of the model
StartMsg(id, total_size, chunk_size) ==
    [op |-> "Start", id |-> id, total_size |-> total_size, chunk_size |-> chunk_size,
     index |-> 0, data |-> <<>>, path |-> NoneVal, hash |-> Hash(<<>>)]

ChunkMsg(id, index, data) ==
    [op |-> "Chunk", id |-> id, total_size |-> 0, chunk_size |-> 0,
     index |-> index, data |-> data, path |-> NoneVal, hash |-> Hash(<<>>)]

EndMsg(id, path, hash) ==
    [op |-> "End", id |-> id, total_size |-> 0, chunk_size |-> 0,
     index |-> 0, data |-> <<>>, path |-> path, hash |-> hash]

AbortMsg(id) ==
    [op |-> "Abort", id |-> id, total_size |-> 0, chunk_size |-> 0,
     index |-> 0, data |-> <<>>, path |-> NoneVal, hash |-> Hash(<<>>)]

\* The operations the agent is sent.  Transfer 1 is any transfer within the
\* bounds: any sizes, any chunk index, chunks of at most MaxChunkSize bytes, any
\* announced hash.  Transfer 2 is the transfer of a file of one byte, running
\* alongside.
TotalSizes(id) == IF id = 1 THEN 0..MaxSize ELSE {1}

ChunkSizes(id) == IF id = 1 THEN 0..MaxChunkSize ELSE {1}

ChunkIndices(id) == IF id = 1 THEN 0..MaxIndex ELSE {0}

ChunkData(id) == IF id = 1 THEN FileContents(MaxChunkSize) ELSE {<<1>>}

AnnouncedHashes(id) ==
    IF id = 1 THEN {Hash(c) : c \in FileContents(MaxSize)} ELSE {Hash(<<1>>)}

Messages ==
    UNION {{StartMsg(id, n, c) : n \in TotalSizes(id), c \in ChunkSizes(id)}
           \cup {ChunkMsg(id, i, d) : i \in ChunkIndices(id), d \in ChunkData(id)}
           \cup {EndMsg(id, p, h) : p \in DestPaths, h \in AnnouncedHashes(id)}
           \cup {AbortMsg(id)} : id \in TransferIds}

process_chunked_transfer(m) ==
    CASE m.op = "Start" -> handle_start(m.id, m.total_size, m.chunk_size)
      [] m.op = "Chunk" -> handle_chunk(m.id, m.index, m.data)
      [] m.op = "End" -> handle_end(m.id, m.path, m.hash)
      [] m.op = "Abort" -> handle_abort(m.id)

\* the agent processes operation m: what it does to the folder
Handle(m) ==
    /\ ~panicked
    /\ transfer_states' = process_chunked_transfer(m).transfer_states
    /\ temp_files' = process_chunked_transfer(m).temp_files
    /\ dest_files' = process_chunked_transfer(m).dest_files
    /\ panicked' = (process_chunked_transfer(m).res = "Panic")

Start(id, total_size, chunk_size) ==
    /\ Handle(StartMsg(id, total_size, chunk_size))
    /\ UNCHANGED <<plan, delivered, threads, rpath>>
    /\ UNCHANGED broker_vars
    /\ UNCHANGED syncer_vars

Chunk(id, index, data) ==
    /\ Handle(ChunkMsg(id, index, data))
    /\ UNCHANGED <<plan, delivered, threads, rpath>>
    /\ UNCHANGED broker_vars
    /\ UNCHANGED syncer_vars

End(id, path, hash) ==
    /\ Handle(EndMsg(id, path, hash))
    /\ UNCHANGED <<plan, delivered, threads, rpath>>
    /\ UNCHANGED broker_vars
    /\ UNCHANGED syncer_vars

Abort(id) ==
    /\ Handle(AbortMsg(id))
    /\ UNCHANGED <<plan, delivered, threads, rpath>>
    /\ UNCHANGED broker_vars
    /\ UNCHANGED syncer_vars

\* a broker that was started and has accepted no connection; the agent
\* specifications leave it so
BrokerIdle ==
    /\ users = <<>>
    /\ connections = <<>>
    /\ computer_connections = <<>>
    /\ pending_operations = <<>>
    /\ operation_counter = 0
    /\ task = [a \in Addrs |-> NotAccepted]
    /\ bcast = <<>>
    /\ rx = [a \in Addrs |-> 0]
    /\ ws_out = [a \in Addrs |-> <<>>]

\* SpecTransfer: any sequence of chunked-transfer operations on a new folder
InitTransfer == BrokerIdle /\ AgentIdle /\ SyncerIdle

NextTransfer ==
    \/ \E id \in TransferIds :
          \E n \in TotalSizes(id), c \in ChunkSizes(id) : Start(id, n, c)
    \/ \E id \in TransferIds :
          \E i \in ChunkIndices(id), d \in ChunkData(id) : Chunk(id, i, d)
    \/ \E id \in TransferIds :
          \E p \in DestPaths, h \in AnnouncedHashes(id) : End(id, p, h)
    \/ \E id \in TransferIds : Abort(id)

SpecTransfer == InitTransfer /\ [][NextTransfer]_vars

\* SpecOrder: a sender transfers one file.  It sends Start first, then each
\* chunk of the file once and End, in any order.
MaxPlanSize == 3

Plans ==
    {[content |-> c, chunk_size |-> k, id |-> id, path |-> p] :
        c \in FileContents(MaxPlanSize), k \in 1..MaxPlanSize,
        id \in TransferIds, p \in DestPaths}

PlanChunk(pl, i) ==
    LET from == i * pl.chunk_size + 1
        upto == IF (i + 1) * pl.chunk_size < Len(pl.content)
                THEN (i + 1) * pl.chunk_size ELSE Len(pl.content)
    IN ChunkMsg(pl.id, i, SubSeq(pl.content, from, upto))

PlanStart(pl) == StartMsg(pl.id, Len(pl.content), pl.chunk_size)

PlanEnd(pl) == EndMsg(pl.id, pl.path, Hash(pl.content))

PlanMessages(pl) ==
    {PlanStart(pl), PlanEnd(pl)}
    \cup {PlanChunk(pl, i) : i \in 0..(div_ceil(Len(pl.content), pl.chunk_size) - 1)}

Deliver(m) ==
    /\ m \notin delivered
    /\ m.op = "Start" \/ PlanStart(plan) \in delivered
    /\ Handle(m)
    /\ delivered' = delivered \cup {m}
    /\ UNCHANGED <<plan, threads, rpath>>
    /\ UNCHANGED broker_vars
    /\ UNCHANGED syncer_vars

DeliverStart == Deliver(PlanStart(plan))

DeliverChunk(i) == Deliver(PlanChunk(plan, i))

DeliverEnd == Deliver(PlanEnd(plan))

InitOrder ==
    /\ BrokerIdle
    /\ transfer_states = <<>>
    /\ temp_files = <<>>
    /\ dest_files = <<>>
    /\ panicked = FALSE
    /\ plan \in Plans
    /\ delivered = {}
    /\ threads = NoThreads
    /\ rpath = NoPath
    /\ SyncerIdle

NextOrder ==
    \/ DeliverStart
    \/ \E i \in 0..(div_ceil(Len(plan.content), plan.chunk_size) - 1) : DeliverChunk(i)
    \/ DeliverEnd

SpecOrder == InitOrder /\ [][NextOrder]_vars

\* ------------------------------------------------------------------ properties of the agent
\* the chunks of transfer id counted as received once operation m is processed
ReceivedWith(m) ==
    transfer_states[m.id].received_chunks
        \cup (IF m.op = "Chunk" THEN {m.index} ELSE {})

\* the temp file of transfer m.id once operation m has written to it
TempWith(m) ==
    IF m.op = "Chunk"
    THEN WriteAt(temp_files[m.id], m.index * transfer_states[m.id].chunk_size, m.data)
    ELSE temp_files[m.id]

\* operation m makes the agent run the commit of transfer m.id: an End with every
\* chunk counted, or a Chunk that completes the count after an early End; the
\* hash the commit expects
RunsCommit(m) ==
    /\ m.id \in DOMAIN transfer_states
    /\ m.id \in DOMAIN temp_files
    /\ \/ m.op = "End"
       \/ m.op = "Chunk" /\ transfer_states[m.id].pending_end # <<>>
    /\ Cardinality(ReceivedWith(m)) = transfer_states[m.id].total_chunks

ExpectedHash(m) ==
    IF m.op = "End" THEN m.hash ELSE transfer_states[m.id].pending_end[1].hash

\* C14: a step that changes the destination tree is the processing of an End
\* or a Chunk of a started transfer, End has been processed by then (it is the
\* End, or an End is pending), and every chunk index from 0 to total_chunks - 1
\* has been received, the chunk of the step included.
C14_DeferredCommit ==
    [][\A m \in Messages :
          (Handle(m) /\ dest_files' # dest_files)
          => /\ m.op \in {"Chunk", "End"}
             /\ m.id \in DOMAIN transfer_states
             /\ m.op = "End" \/ transfer_states[m.id].pending_end # <<>>
             /\ \A i \in 0..(transfer_states[m.id].total_chunks - 1) :
                   i \in ReceivedWith(m)]_vars

\* C15: a step never removes a file of the destination tree, and a file that
\* appears or changes there is the destination of the End being processed, or of
\* the pending End of the Chunk being processed, and its content hashes to the
\* hash that End announced.
C15_CommittedHash ==
    [][\A m \in Messages :
          Handle(m)
          => /\ DOMAIN dest_files \subseteq DOMAIN dest_files'
             /\ \A p \in DOMAIN dest_files' :
                   (p \notin DOMAIN dest_files \/ dest_files'[p] # dest_files[p])
                   => /\ m.op \in {"Chunk", "End"}
                      /\ m.id \in DOMAIN transfer_states
                      /\ m.op = "End" \/ transfer_states[m.id].pending_end # <<>>
                      /\ p = (IF m.op = "End" THEN m.path
                              ELSE transfer_states[m.id].pending_end[1].path)
                      /\ Hash(dest_files'[p]) = ExpectedHash(m)]_vars

\* a file of two bytes, the second not zero, was committed
C15_Witness ==
    \E p \in DOMAIN dest_files : Len(dest_files[p]) = 2 /\ dest_files[p][2] = 1

\* C16: whenever an operation runs the commit (an End, or the final Chunk after
\* an early End) and the temp file does not hash to the announced hash, the
\* operation fails with HashMismatch, the destination tree is as before, the
\* temp file and the transfer state of the id are gone, and the other transfers
\* are as before.
C16_HashMismatch ==
    \A m \in Messages :
        LET r == process_chunked_transfer(m) IN
        (~panicked /\ RunsCommit(m) /\ Hash(TempWith(m)) # ExpectedHash(m))
        => /\ r.res = "HashMismatch"
           /\ r.dest_files = dest_files
           /\ m.id \notin DOMAIN r.temp_files
           /\ m.id \notin DOMAIN r.transfer_states
           /\ \A id \in TransferIds \ {m.id} :
                 /\ id \in DOMAIN r.transfer_states <=> id \in DOMAIN transfer_states
                 /\ id \in DOMAIN transfer_states
                       => r.transfer_states[id] = transfer_states[id]
                 /\ id \in DOMAIN r.temp_files <=> id \in DOMAIN temp_files
                 /\ id \in DOMAIN temp_files => r.temp_files[id] = temp_files[id]

\* with a file already at the destination, an End is pending for a transfer
\* and the Chunk that completes it leaves a temp file of another hash
C16_Witness ==
    /\ dest_files # <<>>
    /\ \E m \in Messages :
          /\ m.op = "Chunk" /\ RunsCommit(m) /\ Hash(TempWith(m)) # ExpectedHash(m)

\* C18: after an operation is processed, the transfer state of an id exists
\* exactly if the operation was a Start of the id that succeeded, or the state
\* existed before and the operation was not an Abort of the id, did not fail on
\* a hash mismatch of the id and did not commit the id (a successful End or
\* Chunk whose temp file was moved away).
C18_StateLifecycle ==
    [][\A m \in Messages :
          Handle(m)
          => \A id \in TransferIds :
                LET r == process_chunked_transfer(m)
                    ended == /\ m.id = id
                             /\ \/ m.op = "Abort"
                                \/ r.res = "HashMismatch"
                                \/ /\ m.op \in {"Chunk", "End"}
                                   /\ r.res = "Ok"
                                   /\ id \in DOMAIN temp_files
                                   /\ id \notin DOMAIN r.temp_files
                IN id \in DOMAIN transfer_states'
                   <=> \/ m.op = "Start" /\ m.id = id /\ r.res = "Ok"
                       \/ id \in DOMAIN transfer_states /\ ~ended]_vars

\* transfer 1 was committed and has no state left while transfer 2 is in
\* progress
C18_Witness ==
    /\ 1 \notin DOMAIN transfer_states
    /\ 1 \notin DOMAIN temp_files
    /\ dest_files # <<>>
    /\ 2 \in DOMAIN transfer_states
    /\ transfer_states[2].received_chunks # {}

\* C19: a Chunk or an End for an id that has no transfer state fails, and leaves
\* the transfer states, the temp files and the destination tree as they are.
C19_UnknownTransfer ==
    \A m \in Messages :
        LET r == process_chunked_transfer(m) IN
        (~panicked /\ m.op \in {"Chunk", "End"} /\ m.id \notin DOMAIN transfer_states)
        => /\ r.res \in {"TransferNotStarted", "TransferStateNotFound"}
           /\ r.transfer_states = transfer_states
           /\ r.temp_files = temp_files
           /\ r.dest_files = dest_files

\* transfer 2 was never started, transfer 1 was started and then committed,
\* aborted or failed, and a file is at the destination
C19_Witness ==
    /\ ~panicked
    /\ transfer_states = <<>>
    /\ temp_files = <<>>
    /\ dest_files # <<>>

\* C20: an Abort succeeds whether the id has a transfer state or not; it leaves
\* no transfer state and no temp file for the id, and leaves the destination
\* tree and the states and temp files of the other ids as they are; processed
\* again in the state it leaves, it changes nothing.
C20_Abort ==
    /\ [](\A id \in TransferIds :
             LET r == handle_abort(id) IN
             /\ r.res = "Ok"
             /\ id \notin DOMAIN r.transfer_states
             /\ id \notin DOMAIN r.temp_files
             /\ r.dest_files = dest_files
             /\ \A o \in TransferIds \ {id} :
                   /\ o \in DOMAIN r.transfer_states <=> o \in DOMAIN transfer_states
                   /\ o \in DOMAIN transfer_states
                         => r.transfer_states[o] = transfer_states[o]
                   /\ o \in DOMAIN r.temp_files <=> o \in DOMAIN temp_files
                   /\ o \in DOMAIN temp_files => r.temp_files[o] = temp_files[o]
             /\ id \notin DOMAIN transfer_states
                   => r.transfer_states = transfer_states)
    /\ [][\A id \in TransferIds :
             Handle(AbortMsg(id))
             => /\ handle_abort(id).transfer_states' = transfer_states'
                /\ handle_abort(id).temp_files' = temp_files'
                /\ handle_abort(id).dest_files' = dest_files']_vars

\* both transfers are in progress, one with an early End pending, and a file is
\* at the destination
C20_Witness ==
    /\ DOMAIN transfer_states = TransferIds
    /\ DOMAIN temp_files = TransferIds
    /\ \E id \in TransferIds : transfer_states[id].pending_end # <<>>
    /\ dest_files # <<>>

\* C17: when the Start, every chunk and the End of the planned transfer have
\* been processed, in whatever order the chunks and the End came, the
\* destination holds the planned content and the transfer has left no state
\* and no temp file.
C17_OrderIndependence ==
    delivered = PlanMessages(plan)
    => /\ DOMAIN dest_files = {plan.path}
       /\ dest_files[plan.path] = plan.content
       /\ plan.id \notin DOMAIN transfer_states
       /\ plan.id \notin DOMAIN temp_files

\* a file of three bytes was transferred in three chunks
C17_Witness ==
    /\ delivered = PlanMessages(plan)
    /\ plan.chunk_size = 1
    /\ plan.content = <<1, 0, 1>>
    /\ dest_files = (plan.path :> plan.content)

\* C21: a Start for an id whose transfer is in progress succeeds and leaves
\* for the id a fresh state, with no chunk received, no End pending and the
\* total_chunks and chunk_size of the new Start, over a temp file of
\* total_size zero bytes.
C21_RestartByStart ==
    \A m \in Messages :
        LET r == process_chunked_transfer(m) IN
        (~panicked /\ m.op = "Start" /\ m.id \in DOMAIN transfer_states)
        => /\ r.res = "Ok"
           /\ m.id \in DOMAIN r.transfer_states
           /\ r.transfer_states[m.id].received_chunks = {}
           /\ r.transfer_states[m.id].pending_end = <<>>
           /\ r.transfer_states[m.id].chunk_size = m.chunk_size
           /\ r.transfer_states[m.id].total_chunks * m.chunk_size >= m.total_size
           /\ m.id \in DOMAIN r.temp_files
           /\ r.temp_files[m.id] = ZeroFile(m.total_size)

\* C22: a Start succeeds and records the least total_chunks with
\* total_chunks * chunk_size >= total_size; an operation places a file at the
\* destination exactly when it is an End, or a Chunk after an early End, that
\* brings the transfer to total_chunks distinct chunks with End processed and
\* the temp file hashing to the announced hash.
C22_TotalChunks ==
    [][\A m \in Messages :
          Handle(m)
          => LET r == process_chunked_transfer(m) IN
             /\ m.op = "Start"
                   => /\ r.res = "Ok"
                      /\ m.id \in DOMAIN transfer_states'
                      /\ LET n == transfer_states'[m.id].total_chunks IN
                         /\ n * m.chunk_size >= m.total_size
                         /\ n > 0 => (n - 1) * m.chunk_size < m.total_size
             /\ (r.res = "Ok" /\ m.op \in {"Chunk", "End"}
                    /\ m.id \in DOMAIN temp_files /\ m.id \notin DOMAIN temp_files')
                <=> (RunsCommit(m) /\ Hash(TempWith(m)) = ExpectedHash(m))]_vars

\* ------------------------------------------------------------------ properties of a session
\* a connection waiting for a message that no Authenticate has bound
Unauthenticated(a) ==
    /\ a \in DOMAIN connections
    /\ AtSelect(a)
    /\ connections[a].user_id = NoneVal
    /\ connections[a].computer_id = NoneVal

GateErrors == {ErrNoAuth, ErrNoComputerAuth}

Denied(r) == r.reply.tag = "Error" /\ r.reply.text \in GateErrors /\ r.users = users

\* C23: on a connection that has not authenticated, RegisterComputer,
\* CreateSyncFolder, JoinSyncFolder, LeaveSyncFolder, RequestOriginSwitch,
\* FolderOperation and GetUserState are each answered with a "Not
\* authenticated" Error and leave users, with their computers and folders, the
\* operation counter and the pending-operations map as they are.
C23_AuthenticationGate ==
    \A a \in Addrs :
        Unauthenticated(a)
        => /\ \A c \in SeqSet(RegisterOrder) : Denied(handle_register_computer(a, c))
           /\ Denied(handle_get_user_state(a))
           /\ \A f \in FolderIds :
                 /\ Denied(handle_create_sync_folder(a, f))
                 /\ Denied(handle_join_sync_folder(a, f))
                 /\ Denied(handle_leave_sync_folder(a, f))
                 /\ Denied(handle_request_origin_switch(a, f))
                 /\ Denied(handle_folder_operation(a, f))
                 /\ ~handle_folder_operation(a, f).accepted
                 /\ handle_folder_operation(a, f).pending_operations = pending_operations
                 /\ handle_folder_operation(a, f).operation_counter = operation_counter

\* a connection is not authenticated while the other one registered a
\* computer, created the folder and sent an operation
C23_Witness ==
    /\ \E a \in Addrs : Unauthenticated(a)
    /\ UsedComputerIds \cap SeqSet(RegisterOrder) # {}
    /\ has_folder(users, "u1", SessionFolder)
    /\ operation_counter > 0

\* C24: Authenticate{user_id, computer_id} is answered with Authenticated
\* exactly if computer_id is registered under user_id; then the connection is
\* bound to (user_id, computer_id), that computer is online and the other
\* connections are as before; otherwise the answer is an Error, every
\* connection is as before and every computer's online flag is as before.
C24_Authenticate ==
    \A a \in Addrs, u \in Users, c \in ComputerIds \cup SeqSet(RegisterOrder) :
        (a \in DOMAIN connections /\ AtSelect(a))
        => LET r == handle_authenticate(a, u, c) IN
           IF u \in DOMAIN users /\ c \in DOMAIN users[u].computers
           THEN /\ r.reply.tag = "Authenticated"
                /\ r.reply.text = u
                /\ r.connections[a] = [user_id |-> u, computer_id |-> c]
                /\ \A b \in DOMAIN connections \ {a} : r.connections[b] = connections[b]
                /\ r.users[u].computers[c] = TRUE
           ELSE /\ r.reply.tag = "Error"
                /\ r.connections = connections
                /\ \A x \in DOMAIN users : r.users[x].computers = users[x].computers
                /\ \A x \in DOMAIN r.users \ DOMAIN users : r.users[x].computers = <<>>

\* a connection is bound to a computer registered by a client, which is online,
\* and the other connection is open and was refused or never tried
C24_Witness ==
    \E a, b \in SessionAddrs :
        /\ a # b
        /\ a \in DOMAIN connections
        /\ connections[a].computer_id \in SeqSet(RegisterOrder)
        /\ users[connections[a].user_id].computers[connections[a].computer_id]
        /\ Unauthenticated(b)

\* the folders of the other users, and of user u other than f, are the same
\* in us as in users
OtherFoldersKept(us, u, f) ==
    /\ DOMAIN us = DOMAIN users
    /\ \A x \in DOMAIN users :
          /\ us[x].computers = users[x].computers
          /\ DOMAIN us[x].sync_folders = DOMAIN users[x].sync_folders
          /\ \A g \in DOMAIN users[x].sync_folders :
                (x # u \/ g # f) => us[x].sync_folders[g] = users[x].sync_folders[g]

\* C25 as stated: JoinSyncFolder from an authenticated computer on a folder
\* of its user is answered with JoinedSyncFolder and the updated folder, which
\* lists the computer as a backup and has is_synced false; on a folder its user
\* does not have it is answered with an Error and changes no folder.
C25_JoinSetsUnsynced ==
    \A a \in Addrs, f \in FolderIds :
        (conn_authenticated(a) /\ AtSelect(a))
        => LET u == connections[a].user_id
               r == handle_join_sync_folder(a, f)
           IN IF has_folder(users, u, f)
              THEN /\ r.reply.tag = "JoinedSyncFolder"
                   /\ r.reply.folder = get_folder(r.users, u, f)
                   /\ Contains(get_folder(r.users, u, f).backup_computers,
                               connections[a].computer_id)
                   /\ ~get_folder(r.users, u, f).is_synced
              ELSE r.reply.tag = "Error" /\ r.users = users

\* C25 amended: JoinSyncFolder from an authenticated computer on a folder of
\* its user is answered with JoinedSyncFolder and the resulting folder; if the
\* computer is not yet a backup of the folder it is appended to
\* backup_computers and is_synced becomes false, and if it already is one the
\* folder stays as it is, is_synced included; nothing else changes.  On a
\* folder its user does not have it is answered with an Error and changes no
\* folder.
C25_JoinOnce ==
    \A a \in Addrs, f \in FolderIds :
        (conn_authenticated(a) /\ AtSelect(a))
        => LET u == connections[a].user_id
               c == connections[a].computer_id
               r == handle_join_sync_folder(a, f)
               old == get_folder(users, u, f)
           IN IF has_folder(users, u, f)
              THEN /\ r.reply.tag = "JoinedSyncFolder"
                   /\ r.reply.folder = get_folder(r.users, u, f)
                   /\ OtherFoldersKept(r.users, u, f)
                   /\ get_folder(r.users, u, f) =
                         IF Contains(old.backup_computers, c)
                         THEN old
                         ELSE [old EXCEPT !.backup_computers = Append(@, c),
                                          !.is_synced = FALSE]
              ELSE r.reply.tag = "Error" /\ r.users = users

\* a computer joined a folder (no operation is pending, yet the folder is not
\* synced), and its connection may join again; another folder is synced and
\* may be joined for the first time
C25_Witness ==
    \E a \in Addrs, f, g \in FolderIds :
        /\ conn_authenticated(a) /\ AtSelect(a)
        /\ has_folder(users, connections[a].user_id, f)
        /\ has_folder(users, connections[a].user_id, g)
        /\ LET fld == get_folder(users, connections[a].user_id, f)
               gld == get_folder(users, connections[a].user_id, g)
           IN /\ Contains(fld.backup_computers, connections[a].computer_id)
              /\ ~fld.is_synced
              /\ fld.pending_operations = 0
              /\ ~Contains(gld.backup_computers, connections[a].computer_id)
              /\ gld.is_synced

\* C26: the step that closes a connection removes its connection record and
\* no other, leaves the computer it was authenticated as offline and the
\* online flag of every other computer as it was, and leaves every folder,
\* the pending-operations map with its rows, the operation counter and the
\* broadcast messages already sent as they were.
C26_Disconnect ==
    [][\A a \in Addrs :
          (task[a] # Closed /\ task'[a] = Closed)
          => /\ a \in DOMAIN connections
             /\ connections' = Del(connections, a)
             /\ DOMAIN users' = DOMAIN users
             /\ \A x \in DOMAIN users :
                   /\ users'[x].sync_folders = users[x].sync_folders
                   /\ DOMAIN users'[x].computers = DOMAIN users[x].computers
                   /\ \A c \in DOMAIN users[x].computers :
                         users'[x].computers[c] =
                             IF x = connections[a].user_id
                                /\ c = connections[a].computer_id
                             THEN FALSE
                             ELSE users[x].computers[c]
             /\ pending_operations' = pending_operations
             /\ operation_counter' = operation_counter
             /\ bcast' = bcast]_vars

\* the origin of a folder sent an operation that is still pending, then its
\* connection dropped and the computer is offline
C26_Witness ==
    \E a \in Addrs, f \in FolderIds :
        /\ task[a] = Closed
        /\ a \notin DOMAIN connections
        /\ has_folder(users, "u1", f)
        /\ get_folder(users, "u1", f).origin_computer = ComputerOrder[a]
        /\ get_folder(users, "u1", f).pending_operations > 0
        /\ Rows(f) # <<>>
        /\ ~users["u1"].computers[ComputerOrder[a]]

\* ------------------------------------------------------------------ local syncer
\* Relative paths of a tree: two entries of the root, one of them with an entry
\* inside.  The root itself, a directory in both trees, is left out: sync()
\* skips it in each of its three loops.
Paths == {"a", "a/x", "b"}

Parent(p) == IF p = "a/x" THEN "a" ELSE NoneVal

\* contents of files: two blocks each, as librsync cuts a file into blocks
FileData == {<<1, 2>>, <<2, 1>>}

NoNode == [kind |-> "none", data |-> <<>>]

DirNode == [kind |-> "dir", data |-> <<>>]

FileNode(d) == [kind |-> "file", data |-> d]

Nodes == {NoNode, DirNode} \cup {FileNode(d) : d \in FileData}

\* the directory trees: what exists lies in a directory
Trees ==
    {t \in [Paths -> Nodes] :
        \A p \in Paths :
            (t[p].kind # "none" /\ Parent(p) # NoneVal) => t[Parent(p)].kind = "dir"}

Exists(fs, p) == fs[p].kind # "none"

\* librsync signature of a file: never empty, it holds the checksum of every
\* block (here the block itself) and is different for different contents; a
\* directory is recorded with the empty signature
create_signature(node) == IF node.kind = "file" THEN <<node.data>> ELSE <<>>

\* FileEntry::is_dir
is_dir(signature) == signature = <<>>

\* FolderStructure::new: one entry per path that walkdir finds
FolderStructure(fs) ==
    [p \in {q \in Paths : Exists(fs, q)} |-> create_signature(fs[p])]

\* FolderStructure::get_relatives
get_relatives(entries) == DOMAIN entries

\* FolderStructure::update_entry: fs::metadata fails on a missing path
update_entry(entries, fs, p) ==
    IF Exists(fs, p)
    THEN [ok |-> TRUE, entries |-> Put(entries, p, create_signature(fs[p]))]
    ELSE [ok |-> FALSE, entries |-> entries]

\* fs::create_dir_all: fails if the path or its parent is a file
create_dir_all(fs, p) ==
    IF p = NoneVal THEN [ok |-> TRUE, fs |-> fs]
    ELSE IF fs[p].kind = "file" \/ (Parent(p) # NoneVal /\ fs[Parent(p)].kind = "file")
    THEN [ok |-> FALSE, fs |-> fs]
    ELSE [ok |-> TRUE,
          fs |-> [q \in Paths |->
                     IF (q = p \/ q = Parent(p)) /\ ~Exists(fs, q) THEN DirNode
                     ELSE fs[q]]]

\* fs::copy: the source is a file, the target lies in a directory and is not one
copy(from, p, to, q) ==
    IF /\ from[p].kind = "file"
       /\ to[q].kind # "dir"
       /\ Parent(q) = NoneVal \/ to[Parent(q)].kind = "dir"
    THEN [ok |-> TRUE, fs |-> [to EXCEPT ![q] = from[p]]]
    ELSE [ok |-> FALSE, fs |-> to]

\* fs::remove_file
remove_file(fs, p) ==
    IF fs[p].kind = "file"
    THEN [ok |-> TRUE, fs |-> [fs EXCEPT ![p] = NoNode]]
    ELSE [ok |-> FALSE, fs |-> fs]

\* fs::remove_dir_all: the directory with all that lies in it
remove_dir_all(fs, p) ==
    IF fs[p].kind = "dir"
    THEN [ok |-> TRUE,
          fs |-> [q \in Paths |-> IF q = p \/ Parent(q) = p THEN NoNode ELSE fs[q]]]
    ELSE [ok |-> FALSE, fs |-> fs]

\* the disk and the Synchronizer, as a handler finds and leaves them
World ==
    [origin_fs |-> origin_fs, backup_fs |-> backup_fs, original |-> original,
     backup |-> backup, path_mapping |-> path_mapping, written |-> sync.written]

Done(w) == [ok |-> TRUE, w |-> w]

Failed(w) == [ok |-> FALSE, w |-> w]

handle_original_created(w, p) ==
    LET d == create_dir_all(w.backup_fs, Parent(p))
        c == copy(w.origin_fs, p, d.fs, p)
        o == update_entry(w.original, w.origin_fs, p)
        b == update_entry(w.backup, c.fs, p)
    IN IF ~d.ok THEN Failed(w)
       ELSE IF ~c.ok THEN Failed([w EXCEPT !.backup_fs = d.fs])
       ELSE IF ~o.ok
       THEN Failed([w EXCEPT !.backup_fs = c.fs,
                             !.written = @ \cup {<<"backup", p>>}])
       ELSE Done([w EXCEPT !.backup_fs = c.fs,
                           !.written = @ \cup {<<"backup", p>>},
                           !.original = o.entries,
                           !.backup = b.entries,
                           !.path_mapping = @ \cup {p}])

\* one iteration of the loop of sync_missing_in_backup
sync_missing_in_backup(w, backup_relatives, p) ==
    IF p \in backup_relatives THEN Done(w)
    ELSE IF is_dir(w.original[p])
    THEN LET d == create_dir_all(w.backup_fs, p) IN
         IF ~d.ok THEN Failed(w)
         ELSE Done([w EXCEPT !.backup_fs = d.fs,
                             !.backup = update_entry(@, d.fs, p).entries,
                             !.path_mapping = @ \cup {p}])
    ELSE handle_original_created(w, p)

\* a mutation: when_missing_preserve_backup is not consulted
extra_in_backup_always(opts, backup_relatives) == backup_relatives

\* the paths the loop of sync_extra_in_backup visits: none when
\* when_missing_preserve_backup is set
extra_in_backup(opts, backup_relatives) ==
    IF opts.when_missing_preserve_backup THEN {} ELSE backup_relatives

\* one iteration of the loop of sync_extra_in_backup
sync_extra_in_backup(w, original_relatives, p) ==
    IF p \in original_relatives THEN Done(w)
    ELSE LET r == IF is_dir(w.backup[p])
                  THEN remove_dir_all(w.backup_fs, p)
                  ELSE remove_file(w.backup_fs, p)
         IN IF ~r.ok THEN Failed(w)
            ELSE Done([w EXCEPT !.backup_fs = r.fs, !.backup = Del(@, p)])

\* a mutation: the origin always wins
sync_conflicts_origin_wins(w, opts, backup_relatives, p) ==
    IF p \notin backup_relatives THEN Done(w)
    ELSE IF is_dir(w.original[p]) \/ is_dir(w.backup[p]) THEN Done(w)
    ELSE IF w.original[p] = w.backup[p] THEN Done(w)
    ELSE LET c == copy(w.origin_fs, p, w.backup_fs, p) IN
         IF ~c.ok THEN Failed(w)
         ELSE Done([w EXCEPT !.backup_fs = c.fs,
                             !.written = @ \cup {<<"backup", p>>},
                             !.backup = update_entry(@, c.fs, p).entries])

\* one iteration of the loop of sync_conflicts
sync_conflicts(w, opts, backup_relatives, p) ==
    IF p \notin backup_relatives THEN Done(w)
    ELSE IF is_dir(w.original[p]) \/ is_dir(w.backup[p]) THEN Done(w)
    ELSE IF w.original[p] = w.backup[p] THEN Done(w)
    ELSE IF opts.when_conflict_preserve_backup
    THEN LET c == copy(w.backup_fs, p, w.origin_fs, p) IN
         IF ~c.ok THEN Failed(w)
         ELSE Done([w EXCEPT !.origin_fs = c.fs,
                             !.written = @ \cup {<<"original", p>>},
                             !.original = update_entry(@, c.fs, p).entries])
    ELSE LET c == copy(w.origin_fs, p, w.backup_fs, p) IN
         IF ~c.ok THEN Failed(w)
         ELSE Done([w EXCEPT !.backup_fs = c.fs,
                             !.written = @ \cup {<<"backup", p>>},
                             !.backup = update_entry(@, c.fs, p).entries])

\* acquire_locks: every file of the two structures can be opened
acquire_locks ==
    /\ \A p \in DOMAIN original : ~is_dir(original[p]) => Exists(origin_fs, p)
    /\ \A p \in DOMAIN backup : ~is_dir(backup[p]) => backup_fs[p].kind = "file"

\* the three loops of sync(), in order, and the paths each one visits
Phases == <<"missing", "extra", "conflicts">>

PhasePaths(i, opts, original_relatives, backup_relatives) ==
    IF Phases[i] = "extra" THEN extra_in_backup(opts, backup_relatives)
    ELSE original_relatives

\* where sync() stands once the loops before the i-th are over: in the first
\* loop from the i-th on that has a path to visit, or at its Ok(())
EnterPhase(i, sy, opts) ==
    LET rest == {j \in i..Len(Phases) :
                    PhasePaths(j, opts, sy.original_relatives, sy.backup_relatives) # {}}
    IN IF rest = {} THEN [sy EXCEPT !.pc = "ok", !.todo = {}]
       ELSE LET j == CHOOSE k \in rest : \A l \in rest : k <= l IN
            [sy EXCEPT !.pc = Phases[j],
                       !.todo = PhasePaths(j, opts, sy.original_relatives,
                                           sy.backup_relatives)]

PhaseIndex(pc) == CHOOSE i \in 1..Len(Phases) : Phases[i] = pc

\* the state one iteration with outcome r on path p leaves
Iterate(r, p) ==
    /\ origin_fs' = r.w.origin_fs
    /\ backup_fs' = r.w.backup_fs
    /\ original' = r.w.original
    /\ backup' = r.w.backup
    /\ path_mapping' = r.w.path_mapping
    /\ sync' = LET sy == [sync EXCEPT !.written = r.w.written, !.todo = @ \ {p}] IN
               IF ~r.ok THEN [sy EXCEPT !.pc = "err", !.failed = sync.pc, !.todo = {}]
               ELSE IF sy.todo # {} THEN sy
               ELSE EnterPhase(PhaseIndex(sync.pc) + 1, sy, options)
    /\ UNCHANGED <<options, before, events>>
    /\ UNCHANGED <<broker_vars, agent_vars>>

\* Synchronizer::new: the two structures and the mapping of every original path
SynchronizerNew ==
    /\ sync.pc = "none"
    /\ original' = FolderStructure(origin_fs)
    /\ backup' = FolderStructure(backup_fs)
    /\ path_mapping' = DOMAIN FolderStructure(origin_fs)
    /\ sync' = [sync EXCEPT !.pc = "ready"]
    /\ UNCHANGED <<origin_fs, backup_fs, options, before, events>>
    /\ UNCHANGED <<broker_vars, agent_vars>>

\* sync() up to its first loop
SyncBegin ==
    /\ sync.pc = "ready"
    /\ sync' = IF acquire_locks
               THEN EnterPhase(1, [sync EXCEPT
                                      !.original_relatives = get_relatives(original),
                                      !.backup_relatives = get_relatives(backup)],
                               options)
               ELSE [sync EXCEPT !.pc = "err", !.failed = "locks"]
    /\ UNCHANGED <<origin_fs, backup_fs, original, backup, path_mapping, options,
                   before, events>>
    /\ UNCHANGED <<broker_vars, agent_vars>>

\* the loops visit the keys of a HashMap: in any order
SyncMissingInBackup(p) ==
    /\ sync.pc = "missing"
    /\ p \in sync.todo
    /\ Iterate(sync_missing_in_backup(World, sync.backup_relatives, p), p)

SyncExtraInBackup(p) ==
    /\ sync.pc = "extra"
    /\ p \in sync.todo
    /\ Iterate(sync_extra_in_backup(World, sync.original_relatives, p), p)

SyncConflicts(p) ==
    /\ sync.pc = "conflicts"
    /\ p \in sync.todo
    /\ Iterate(sync_conflicts(World, options, sync.backup_relatives, p), p)

\* SpecSync: main builds a Synchronizer over any two trees, with any options
\* for reconciliation, and runs sync()
SyncOptions ==
    {[DefaultOptions EXCEPT !.when_missing_preserve_backup = m,
                            !.when_conflict_preserve_backup = c] : m, c \in BOOLEAN}

InitSync ==
    /\ BrokerIdle
    /\ AgentIdle
    /\ origin_fs \in Trees
    /\ backup_fs \in Trees
    /\ original = <<>>
    /\ backup = <<>>
    /\ path_mapping = {}
    /\ options \in SyncOptions
    /\ sync = NoSync
    /\ before = [origin |-> origin_fs, backup |-> backup_fs]
    /\ events = NoEvents

NextSync ==
    \/ SynchronizerNew
    \/ SyncBegin
    \/ \E p \in Paths : SyncMissingInBackup(p)
    \/ \E p \in Paths : SyncExtraInBackup(p)
    \/ \E p \in Paths : SyncConflicts(p)

SpecSync == InitSync /\ [][NextSync]_vars

\* ------------------------------------------------------------------ properties of reconciliation
\* paths that existed in one tree only, or as a file in both, when the
\* Synchronizer was built
BackupOnly == {p \in Paths : Exists(before.backup, p) /\ ~Exists(before.origin, p)}

OriginOnly == {p \in Paths : Exists(before.origin, p) /\ ~Exists(before.backup, p)}

FileInBoth ==
    {p \in Paths : before.origin[p].kind = "file" /\ before.backup[p].kind = "file"}

\* C27: when sync() has returned Ok under the default options, the backup
\* tree is the origin tree: the same paths, of the same kind, and the files
\* with the same content.
C27_TreesIdentical ==
    (sync.pc = "ok" /\ options = DefaultOptions) => backup_fs = origin_fs

\* C28: with when_missing_preserve_backup unset, the loop over the paths of
\* the backup never fails, in whatever order it visits them, and once it is
\* over no path that was in the backup only is on disk or in the backup
\* structure.
C28_ExtraInBackupDeleted ==
    ~options.when_missing_preserve_backup
    => /\ sync.failed # "extra"
       /\ sync.pc \in {"conflicts", "ok"}
             => \A p \in BackupOnly : ~Exists(backup_fs, p) /\ p \notin DOMAIN backup

\* C29: with when_missing_preserve_backup set, from the construction of the
\* Synchronizer on, every path that was in the backup only is on disk as it
\* was, has its entry in the backup structure and was never written; and when
\* sync() has returned Ok every path that was in the origin only is in the
\* backup as it was in the origin.
C29_BackupOnlyPreserved ==
    (options.when_missing_preserve_backup /\ sync.pc # "none")
    => /\ \A p \in BackupOnly :
             /\ backup_fs[p] = before.backup[p]
             /\ p \in DOMAIN backup
             /\ <<"backup", p>> \notin sync.written
       /\ sync.pc = "ok"
             => \A p \in OriginOnly :
                   backup_fs[p] = before.origin[p] /\ origin_fs[p] = before.origin[p]

\* sync() returned Ok with the option set; a file and a directory with a file
\* in it were in the backup only, a file was in the origin only
C29_Witness ==
    /\ sync.pc = "ok"
    /\ options.when_missing_preserve_backup
    /\ \E p, q \in BackupOnly : before.backup[p].kind = "dir" /\ Parent(q) = p
    /\ \E p \in OriginOnly : backup_fs[p].kind = "file"

\* C30: a file of both trees whose contents are the same is never written
\* in either tree; when sync() has returned Ok, a file of both trees whose
\* contents differed holds in both trees the content the origin had if
\* when_conflict_preserve_backup is unset, and only the backup was written, and
\* the content the backup had if it is set, and only the origin was written.
C30_ConflictResolution ==
    \A p \in FileInBoth :
        IF before.origin[p] = before.backup[p]
        THEN /\ <<"original", p>> \notin sync.written
             /\ <<"backup", p>> \notin sync.written
             /\ origin_fs[p] = before.origin[p]
             /\ backup_fs[p] = before.backup[p]
        ELSE sync.pc = "ok"
             => IF options.when_conflict_preserve_backup
                THEN /\ origin_fs[p] = before.backup[p]
                     /\ backup_fs[p] = before.backup[p]
                     /\ <<"backup", p>> \notin sync.written
                     /\ <<"original", p>> \in sync.written
                ELSE /\ origin_fs[p] = before.origin[p]
                     /\ backup_fs[p] = before.origin[p]
                     /\ <<"original", p>> \notin sync.written
                     /\ <<"backup", p>> \in sync.written

\* sync() returned Ok with when_conflict_preserve_backup set: one file
\* differed and the origin now holds what the backup had, another was the same
C30_Witness ==
    /\ sync.pc = "ok"
    /\ options.when_conflict_preserve_backup
    /\ \E p, q \in FileInBoth :
          /\ before.origin[p] # before.backup[p]
          /\ origin_fs[p] = before.backup[p]
          /\ before.origin[q] = before.backup[q]

\* ------------------------------------------------------------------ connections
\* the connections authenticated as computer c of user u
ConnectionsOf(u, c) ==
    {a \in DOMAIN connections :
        connections[a].user_id = u /\ connections[a].computer_id = c}

\* C38: in every reachable state a computer is online exactly when some
\* registered connection is authenticated as it, and computer_connections
\* holds, for it, the address of such a connection.
C38_OnlineIffConnected ==
    \A u \in DOMAIN users : \A c \in DOMAIN users[u].computers :
        /\ users[u].computers[c] <=> ConnectionsOf(u, c) # {}
        /\ users[u].computers[c] =>
              /\ <<u, c>> \in DOMAIN computer_connections
              /\ computer_connections[<<u, c>>] \in ConnectionsOf(u, c)

\* ------------------------------------------------------------------ no way back to synced
\* C39: no handler sets is_synced of a folder from false to true or decreases
\* its pending_operations; so for a folder created by CreateSyncFolder (every
\* folder of SpecSession) no request for an origin switch is ever granted.
C39_NoGrantedSwitch ==
    /\ [](\A a \in Addrs, f \in FolderIds :
              handle_request_origin_switch(a, f).reply.tag # "OriginSwitched")
    /\ [][\A u \in DOMAIN users, f \in FolderIds :
              has_folder(users, u, f) /\ has_folder(users', u, f) =>
                  /\ get_folder(users', u, f).is_synced =>
                         get_folder(users, u, f).is_synced
                  /\ get_folder(users', u, f).pending_operations >=
                         get_folder(users, u, f).pending_operations]_vars

\* a backup of a created folder that has accepted operations asks for the switch
C39_Witness ==
    \E a \in Addrs, f \in FolderIds :
        /\ conn_authenticated(a)
        /\ is_backup(users, connections[a].user_id, f, connections[a].computer_id)
        /\ get_folder(users, connections[a].user_id, f).pending_operations > 0
        /\ handle_request_origin_switch(a, f).reply.tag = "OriginSwitchDenied"

\* ------------------------------------------------------------------ the empty broker
\* SpecEmpty: the broker as run_server starts it, with ServerState::new(): no
\* user, no computer, no folder.  Three connections send every client message,
\* with any user id and any computer id.  The steps after an accepted
\* FolderOperation and the broadcast branch have no part: no operation is
\* accepted and the channel stays empty.
ClientUserIds == Users \cup {"u3"}

ClientComputerIds == ComputerIds \cup SeqSet(RegisterOrder)

InitEmpty ==
    /\ users = <<>>
    /\ connections = <<>>
    /\ computer_connections = <<>>
    /\ pending_operations = <<>>
    /\ operation_counter = 0
    /\ task = [a \in Addrs |-> NotAccepted]
    /\ bcast = <<>>
    /\ rx = [a \in Addrs |-> 0]
    /\ ws_out = [a \in Addrs |-> <<>>]
    /\ AgentIdle
    /\ SyncerIdle

NextEmpty ==
    \/ \E a \in Addrs : Connect(a)
    \/ \E a \in Addrs, u \in ClientUserIds, c \in ClientComputerIds :
          Authenticate(a, u, c)
    \/ \E a \in Addrs : RegisterComputer(a)
    \/ \E a \in Addrs : GetUserState(a)
    \/ \E a \in Addrs : CreateSyncFolder(a)
    \/ \E a \in Addrs, f \in FolderIds : JoinSyncFolder(a, f)
    \/ \E a \in Addrs, f \in FolderIds : LeaveSyncFolder(a, f)
    \/ \E a \in Addrs, f \in FolderIds : RequestOriginSwitch(a, f)
    \/ \E a \in Addrs, f \in FolderIds : FolderOperation(a, f)
    \/ \E a \in Addrs, op \in 1..MaxOps : Ack(a, op)
    \/ \E a \in Addrs : Disconnect(a)

SpecEmpty == InitEmpty /\ [][NextEmpty]_vars

\* C40: from the empty broker state no client message authenticates a
\* connection or registers a computer: every connection stays unbound, no
\* computer is bound to an address and every user has no computer.
C40_NothingFromEmpty ==
    /\ \A a \in DOMAIN connections : ~conn_authenticated(a)
    /\ \A a \in DOMAIN connections : connections[a].user_id = NoneVal
    /\ computer_connections = <<>>
    /\ \A u \in DOMAIN users : DOMAIN users[u].computers = {}

\* a live connection whose Authenticate has created a user and been refused,
\* and whose RegisterComputer is refused as well
C40_Witness ==
    \E a \in DOMAIN connections, u \in DOMAIN users, c \in ClientComputerIds :
        /\ AtSelect(a)
        /\ handle_authenticate(a, u, c).reply.tag = "Error"
        /\ handle_register_computer(a, c).reply.tag = "Error"

\* ------------------------------------------------------------------ End and the last Chunk in parallel
\* SpecRace: Folder's handlers take &self and share transfer_states through its
\* mutex.  After a Start and some chunks of transfer RaceId, processed one at a
\* time, one thread runs handle_chunk for the one chunk of the file that is
\* still missing while another runs handle_end.  A step of a thread is one
\* critical section on the mutex or the file work between two of them.
RaceId == 1

Sequential == threads.chunk = "none"

\* the two threads are started: no End was processed before, and index is the
\* only chunk of the file not received yet
Spawn(index, data, path, hash) ==
    /\ Sequential
    /\ ~panicked
    /\ RaceId \in DOMAIN transfer_states
    /\ transfer_states[RaceId].pending_end = <<>>
    /\ (0..(transfer_states[RaceId].total_chunks - 1))
           \ transfer_states[RaceId].received_chunks = {index}
    /\ threads' = [NoThreads EXCEPT
                      !.chunk = "read", !.end = "check", !.id = RaceId,
                      !.index = index, !.data = data, !.path = path, !.hash = hash,
                      !.in_range = transfer_states[RaceId].received_chunks
                                    \subseteq 0..(transfer_states[RaceId].total_chunks - 1)]
    /\ UNCHANGED <<transfer_states, temp_files, dest_files, panicked, plan, delivered, rpath>>
    /\ UNCHANGED broker_vars
    /\ UNCHANGED syncer_vars

\* handle_chunk, first critical section: chunk_size is read from the state
ChunkReadSize ==
    /\ threads.chunk = "read"
    /\ threads' =
          IF threads.id \in DOMAIN transfer_states
          THEN [threads EXCEPT !.chunk = "write",
                               !.chunk_size = transfer_states[threads.id].chunk_size]
          ELSE [threads EXCEPT !.chunk = "err"]
    /\ UNCHANGED <<transfer_states, temp_files, dest_files, panicked, plan, delivered, rpath>>
    /\ UNCHANGED broker_vars
    /\ UNCHANGED syncer_vars

\* handle_chunk outside the lock: open, seek, write_all, sync_data
ChunkWrite ==
    /\ threads.chunk = "write"
    /\ IF threads.id \in DOMAIN temp_files
       THEN /\ temp_files' =
                  [temp_files EXCEPT
                      ![threads.id] =
                          WriteAt(@, threads.index * threads.chunk_size, threads.data)]
            /\ threads' = [threads EXCEPT !.chunk = "mark"]
       ELSE /\ temp_files' = temp_files
            /\ threads' = [threads EXCEPT !.chunk = "err"]
    /\ UNCHANGED <<transfer_states, dest_files, panicked, plan, delivered, rpath>>
    /\ UNCHANGED broker_vars
    /\ UNCHANGED syncer_vars

\* handle_chunk, second critical section: the chunk is marked as received; with
\* a pending End and every chunk counted, the lock is dropped and the commit
\* is this thread's
ChunkMark ==
    /\ threads.chunk = "mark"
    /\ IF threads.id \in DOMAIN transfer_states
       THEN LET state == transfer_states[threads.id]
                received == state.received_chunks \cup {threads.index}
            IN /\ transfer_states' =
                     [transfer_states EXCEPT ![threads.id].received_chunks = received]
               /\ threads' =
                     IF state.pending_end # <<>>
                        /\ Cardinality(received) = state.total_chunks
                     THEN [threads EXCEPT !.chunk = "commit",
                                          !.pending_end = state.pending_end,
                                          !.commits = @ + 1]
                     ELSE [threads EXCEPT !.chunk = "done"]
       ELSE /\ transfer_states' = transfer_states
            /\ threads' = [threads EXCEPT !.chunk = "done"]
    /\ UNCHANGED <<temp_files, dest_files, panicked, plan, delivered, rpath>>
    /\ UNCHANGED broker_vars
    /\ UNCHANGED syncer_vars

\* handle_end, its critical section: with every chunk counted the commit is
\* this thread's, otherwise the End is stored as pending
EndCheck ==
    /\ threads.end = "check"
    /\ IF threads.id \notin DOMAIN transfer_states
       THEN /\ transfer_states' = transfer_states
            /\ threads' = [threads EXCEPT !.end = "err"]
       ELSE IF Cardinality(transfer_states[threads.id].received_chunks)
                   = transfer_states[threads.id].total_chunks
       THEN /\ transfer_states' = transfer_states
            /\ threads' = [threads EXCEPT !.end = "commit", !.commits = @ + 1]
       ELSE /\ transfer_states' =
                  [transfer_states EXCEPT
                      ![threads.id].pending_end = PendingEnd(threads.path, threads.hash)]
            /\ threads' = [threads EXCEPT !.end = "done"]
    /\ UNCHANGED <<temp_files, dest_files, panicked, plan, delivered, rpath>>
    /\ UNCHANGED broker_vars
    /\ UNCHANGED syncer_vars

RaceThreads == {"chunk", "end"}

\* the End a thread commits: the pending one for handle_chunk, its own message
\* for handle_end
CommitEnd(t) ==
    IF t = "chunk" THEN threads.pending_end[1]
    ELSE [path |-> threads.path, hash |-> threads.hash]

\* handle_end_internal outside the lock: hash_file, then remove_file or rename
CommitFile(t) ==
    /\ threads[t] = "commit"
    /\ LET r == handle_end_internal(transfer_states, temp_files, dest_files,
                                    threads.id, CommitEnd(t).path, CommitEnd(t).hash)
       IN /\ temp_files' = r.temp_files
          /\ dest_files' = r.dest_files
          /\ threads' = [threads EXCEPT ![t] = IF r.res = "Io" THEN "err" ELSE "cleanup"]
    /\ UNCHANGED <<transfer_states, panicked, plan, delivered, rpath>>
    /\ UNCHANGED broker_vars
    /\ UNCHANGED syncer_vars

\* handle_end_internal, its critical section: the transfer state is removed
CommitCleanup(t) ==
    /\ threads[t] = "cleanup"
    /\ transfer_states' = Del(transfer_states, threads.id)
    /\ threads' = [threads EXCEPT ![t] = "done"]
    /\ UNCHANGED <<temp_files, dest_files, panicked, plan, delivered, rpath>>
    /\ UNCHANGED broker_vars
    /\ UNCHANGED syncer_vars

InitRace == BrokerIdle /\ AgentIdle /\ SyncerIdle

NextRace ==
    \/ \E n \in TotalSizes(RaceId), c \in ChunkSizes(RaceId) \ {0} :
          Sequential /\ Start(RaceId, n, c)
    \/ \E i \in ChunkIndices(RaceId), d \in ChunkData(RaceId) :
          Sequential /\ Chunk(RaceId, i, d)
    \/ \E i \in ChunkIndices(RaceId), d \in ChunkData(RaceId), p \in DestPaths,
          h \in AnnouncedHashes(RaceId) : Spawn(i, d, p, h)
    \/ ChunkReadSize
    \/ ChunkWrite
    \/ ChunkMark
    \/ EndCheck
    \/ \E t \in RaceThreads : CommitFile(t)
    \/ \E t \in RaceThreads : CommitCleanup(t)

SpecRace == InitRace /\ [][NextRace]_vars

\* both threads have returned
RaceFinished ==
    /\ threads.chunk \in {"done", "err"}
    /\ threads.end \in {"done", "err"}

\* C36: with End and the last missing Chunk of a transfer processed by two
\* threads, under every interleaving the commit is run exactly once: it is
\* never run twice, and once both threads have returned it has been run.
C36_CommittedExactlyOnce ==
    /\ threads.commits <= 1
    /\ RaceFinished => threads.commits = 1

\* the same holds of the races where every chunk received before had an index
\* of the file
InRangeRaceCommitsOnce ==
    threads.in_range =>
        /\ threads.commits <= 1
        /\ RaceFinished => threads.commits = 1

\* ------------------------------------------------------------------ RelativePath
\* A path string is a sequence of characters.  The alphabet has a letter, the
\* two separators, the dot, the colon, a control character, and a combining
\* acute accent with the letter it composes to under NFC.
PathChars == {"a", "/", "\\", ".", ":", "U+0000", "U+0301", "U+00E1"}

\* longest path string, in characters
MaxPathLen == 4

MAX_PATH_LENGTH == 4096

PathStrings == UNION {[1..n -> PathChars] : n \in 0..MaxPathLen}

\* bytes of a character in UTF-8
Utf8Len(c) == IF c \in {"U+0301", "U+00E1"} THEN 2 ELSE 1

\* str::len: the length in bytes
RECURSIVE len(_)
len(s) == IF s = <<>> THEN 0 ELSE Utf8Len(Head(s)) + len(Tail(s))

\* UnicodeNormalization::nfc: a letter and the accent that follows it compose
RECURSIVE nfc(_)
nfc(s) ==
    IF Len(s) < 2 THEN s
    ELSE IF s[1] = "a" /\ s[2] = "U+0301"
    THEN <<"U+00E1">> \o nfc(SubSeq(s, 3, Len(s)))
    ELSE <<s[1]>> \o nfc(Tail(s))

\* str::replace('\\', "/")
replace(s) == [i \in 1..Len(s) |-> IF s[i] = "\\" THEN "/" ELSE s[i]]

\* char::is_control
is_control(c) == c = "U+0000"

\* str::split('/'): the pieces between the separators, empty ones included
RECURSIVE split(_)
split(s) ==
    IF \A i \in 1..Len(s) : s[i] # "/" THEN <<s>>
    ELSE LET k == CHOOSE i \in 1..Len(s) :
                      s[i] = "/" /\ \A j \in 1..(i - 1) : s[j] # "/"
         IN <<SubSeq(s, 1, k - 1)>> \o split(SubSeq(s, k + 1, Len(s)))

\* the components that are neither empty nor "."
RECURSIVE clean(_)
clean(cs) ==
    IF cs = <<>> THEN <<>>
    ELSE IF Head(cs) \in {<<>>, <<".">>} THEN clean(Tail(cs))
    ELSE <<Head(cs)>> \o clean(Tail(cs))

\* [&str]::join("/")
RECURSIVE join(_)
join(cs) ==
    IF cs = <<>> THEN <<>>
    ELSE IF Len(cs) = 1 THEN cs[1]
    ELSE cs[1] \o <<"/">> \o join(Tail(cs))

\* RelativePath::new
RelativePathNew(path) ==
    IF path = <<>> THEN PathErr("Empty")
    ELSE IF len(path) > MAX_PATH_LENGTH THEN PathErr("TooLong")
    ELSE LET normalized == replace(nfc(path))
             components == split(normalized)
         IN IF normalized[1] = "/" \/ (Len(normalized) >= 2 /\ normalized[2] = ":")
            THEN PathErr("Absolute")
            ELSE IF \E i \in 1..Len(normalized) : is_control(normalized[i])
            THEN PathErr("InvalidCharacters")
            ELSE IF \E i \in 1..Len(components) : components[i] = <<".", ".">>
            THEN PathErr("ParentTraversal")
            ELSE IF clean(components) = <<>> THEN PathErr("Empty")
            ELSE PathOk(join(clean(components)))

\* From<RelativePath> for String, and Display: the inner string
to_string(relative_path) == relative_path.path

\* RelativePath::new(input)
PathNew ==
    /\ rpath.parsed = <<>>
    /\ rpath' = [rpath EXCEPT !.parsed = <<RelativePathNew(rpath.input)>>]
    /\ UNCHANGED <<transfer_states, temp_files, dest_files, panicked, plan, delivered,
                   threads>>
    /\ UNCHANGED broker_vars
    /\ UNCHANGED syncer_vars

\* serde, into = "String": the value is written as its string
PathSerialize ==
    /\ rpath.parsed # <<>>
    /\ rpath.parsed[1].ok
    /\ rpath.json = <<>>
    /\ rpath' = [rpath EXCEPT !.json = <<to_string(rpath.parsed[1])>>]
    /\ UNCHANGED <<transfer_states, temp_files, dest_files, panicked, plan, delivered,
                   threads>>
    /\ UNCHANGED broker_vars
    /\ UNCHANGED syncer_vars

\* serde, try_from = "String": the string goes through RelativePath::new
PathDeserialize ==
    /\ rpath.json # <<>>
    /\ rpath.back = <<>>
    /\ rpath' = [rpath EXCEPT !.back = <<RelativePathNew(rpath.json[1])>>]
    /\ UNCHANGED <<transfer_states, temp_files, dest_files, panicked, plan, delivered,
                   threads>>
    /\ UNCHANGED broker_vars
    /\ UNCHANGED syncer_vars

InitPath ==
    /\ BrokerIdle
    /\ SyncerIdle
    /\ transfer_states = <<>>
    /\ temp_files = <<>>
    /\ dest_files = <<>>
    /\ panicked = FALSE
    /\ plan = NoPlan
    /\ delivered = {}
    /\ threads = NoThreads
    /\ rpath \in {[NoPath EXCEPT !.input = s] : s \in PathStrings}

NextPath == PathNew \/ PathSerialize \/ PathDeserialize

SpecPath == InitPath /\ [][NextPath]_vars

\* C35: the canonical string of every accepted path is accepted and gives the
\* same RelativePath, so a RelativePath written as its string and read back
\* (through RelativePath::new) is there again and equal.
C35_CanonicalIdempotent ==
    rpath.back # <<>> =>
        /\ rpath.back[1].ok
        /\ rpath.back[1] = rpath.parsed[1]

\* ------------------------------------------------------------------ events of the original tree
\* librsync delta of a file against a signature: a block whose checksum the
\* signature holds becomes a copy of that block of the old file, any other
\* block is carried as it is
calculate_delta(new_data, old_sig) ==
    [i \in 1..Len(new_data) |->
        IF \E j \in 1..Len(old_sig[1]) : old_sig[1][j] = new_data[i]
        THEN [op |-> "copy",
              arg |-> CHOOSE j \in 1..Len(old_sig[1]) :
                          /\ old_sig[1][j] = new_data[i]
                          /\ \A k \in 1..(j - 1) : old_sig[1][k] # new_data[i]]
        ELSE [op |-> "literal", arg |-> new_data[i]]]

\* librsync patch: the copies are read from the old file as it is now; a copy
\* beyond its end is an error
apply_patch(old_data, dlt) ==
    IF \E i \in 1..Len(dlt) : dlt[i].op = "copy" /\ dlt[i].arg > Len(old_data)
    THEN [ok |-> FALSE, data |-> <<>>]
    ELSE [ok |-> TRUE,
          data |-> [i \in 1..Len(dlt) |->
                       IF dlt[i].op = "copy" THEN old_data[dlt[i].arg] ELSE dlt[i].arg]]

\* fs::rename of a file: the target lies in a directory and is not one.  (No
\* event of the model names a directory as the source of a rename.)
rename(fs, p, q) ==
    IF /\ fs[p].kind = "file"
       /\ fs[q].kind # "dir"
       /\ Parent(q) = NoneVal \/ fs[Parent(q)].kind = "dir"
    THEN [ok |-> TRUE, fs |-> [fs EXCEPT ![q] = fs[p], ![p] = NoNode]]
    ELSE [ok |-> FALSE, fs |-> fs]

\* what handle_original_modified_calculate_delta returns: the two unwraps
\* panic when the backup structure has no entry for the path
handle_original_modified_calculate_delta(w, p) ==
    IF w.origin_fs[p].kind # "file" THEN [res |-> "Err", delta |-> <<>>]
    ELSE IF p \notin DOMAIN w.backup THEN [res |-> "Panic", delta |-> <<>>]
    ELSE IF create_signature(w.origin_fs[p]) = w.backup[p]
    THEN [res |-> "Ok", delta |-> <<>>]
    ELSE IF is_dir(w.backup[p]) THEN [res |-> "Err", delta |-> <<>>]
    ELSE [res |-> "Ok", delta |-> calculate_delta(w.origin_fs[p].data, w.backup[p])]

\* a mutation: the patched file is written, the two entries are left as they were
handle_original_modified_apply_delta_stale_entries(w, p, dlt) ==
    LET out == apply_patch(w.backup_fs[p].data, dlt) IN
    IF w.backup_fs[p].kind # "file" \/ ~out.ok THEN Failed(w)
    ELSE Done([w EXCEPT !.backup_fs = [@ EXCEPT ![p] = FileNode(out.data)]])

\* handle_original_modified_apply_delta: patch, truncate, write, then both
\* entries are read again from the disk
handle_original_modified_apply_delta(w, p, dlt) ==
    LET out == apply_patch(w.backup_fs[p].data, dlt)
        bfs == [w.backup_fs EXCEPT ![p] = FileNode(out.data)]
        o == update_entry(w.original, w.origin_fs, p)
        b == update_entry(w.backup, bfs, p)
    IN IF w.backup_fs[p].kind # "file" \/ ~out.ok THEN Failed(w)
       ELSE IF ~o.ok THEN Failed([w EXCEPT !.backup_fs = bfs])
       ELSE Done([w EXCEPT !.backup_fs = bfs, !.original = o.entries,
                           !.backup = b.entries])

\* AppState::process_modified_path when nothing runs between its two phases
process_modified_path(w, p) ==
    LET c == handle_original_modified_calculate_delta(w, p) IN
    IF c.res # "Ok" THEN Failed(w)
    ELSE IF c.delta = <<>> THEN Done(w)
    ELSE handle_original_modified_apply_delta(w, p, c.delta)

handle_original_deleted(w, opts, p) ==
    IF opts.when_delete_keep_backup THEN Done(w)
    ELSE IF p \in w.path_mapping
    THEN LET r == IF Exists(w.backup_fs, p) THEN remove_file(w.backup_fs, p)
                  ELSE [ok |-> TRUE, fs |-> w.backup_fs]
         IN IF ~r.ok THEN Failed([w EXCEPT !.path_mapping = @ \ {p}])
            ELSE Done([w EXCEPT !.path_mapping = @ \ {p},
                                !.backup_fs = r.fs,
                                !.backup = Del(@, p),
                                !.original = Del(@, p)])
    ELSE Done([w EXCEPT !.original = Del(@, p)])

handle_original_renamed(w, from_path, to_path) ==
    LET w1 == [w EXCEPT !.path_mapping = @ \ {from_path},
                        !.original = Del(@, from_path)]
        moved == from_path \in w.path_mapping /\ Exists(w.backup_fs, from_path)
        d == create_dir_all(w.backup_fs, Parent(to_path))
        r == rename(d.fs, from_path, to_path)
        w2 == IF moved
              THEN [w1 EXCEPT !.backup_fs = r.fs, !.backup = Del(@, from_path)]
              ELSE w1
        o == update_entry(w2.original, w2.origin_fs, to_path)
        b == update_entry(w2.backup, w2.backup_fs, to_path)
    IN IF moved /\ ~d.ok THEN Failed(w1)
       ELSE IF moved /\ ~r.ok THEN Failed([w1 EXCEPT !.backup_fs = d.fs])
       ELSE IF ~o.ok THEN Failed(w2)
       ELSE IF ~b.ok THEN Failed([w2 EXCEPT !.original = o.entries])
       ELSE Done([w2 EXCEPT !.original = o.entries, !.backup = b.entries,
                            !.path_mapping = @ \cup {to_path}])

\* SpecEvents: AppState::new_with_local_sync over any original tree and a new
\* backup directory, then the event loop.  While the debouncer collects a
\* batch the user writes, removes and renames below the original root; a path
\* that was a directory when the program started is never made a file.  recv()
\* hands the batch over and par_iter runs one handler per event, in any order;
\* every handler but the one of Modify holds the write lock from start to end.
MaxEvents == 2

Event(kind, paths) == [kind |-> kind, paths |-> paths, pc |-> "new", delta |-> <<>>]

RemoveAt(s, i) == SubSeq(s, 1, i - 1) \o SubSeq(s, i + 1, Len(s))

Collecting ==
    /\ sync.pc = "ok"
    /\ events.phase = "collect"
    /\ Len(events.batch) < MaxEvents

\* the debouncer adds the event of what the user has just done
Emit(e) ==
    /\ events' = [events EXCEPT !.batch = Append(@, e), !.race = NoneVal]
    /\ UNCHANGED <<backup_fs, original, backup, path_mapping, options, sync, before>>
    /\ UNCHANGED <<broker_vars, agent_vars>>

\* the user writes a file: a new one (Create) or an existing one (Modify(Data))
UserWrite(p, d) ==
    /\ Collecting
    /\ origin_fs[p].kind # "dir"
    /\ before.origin[p].kind # "dir"
    /\ IF Parent(p) = NoneVal THEN TRUE ELSE origin_fs[Parent(p)].kind = "dir"
    /\ origin_fs' = [origin_fs EXCEPT ![p] = FileNode(d)]
    /\ Emit(Event(IF Exists(origin_fs, p) THEN "Modify" ELSE "Create", <<p>>))

\* the user removes a file, or a directory with all that lies in it: one Remove
UserRemove(p) ==
    /\ Collecting
    /\ Exists(origin_fs, p)
    /\ origin_fs' = IF origin_fs[p].kind = "dir" THEN remove_dir_all(origin_fs, p).fs
                    ELSE remove_file(origin_fs, p).fs
    /\ Emit(Event("Remove", <<p>>))

\* the user renames a file: Modify(Name(Both)) with both paths, or with the
\* first alone
UserRename(p, q, n) ==
    /\ Collecting
    /\ p # q
    /\ before.origin[q].kind # "dir"
    /\ rename(origin_fs, p, q).ok
    /\ origin_fs' = rename(origin_fs, p, q).fs
    /\ Emit(Event("Rename", SubSeq(<<p, q>>, 1, n)))

\* rx.recv(): the batch goes to par_iter
Recv ==
    /\ sync.pc = "ok"
    /\ events.phase = "collect"
    /\ events.batch # <<>>
    /\ events' =
          [events EXCEPT
              !.phase = "process",
              !.race = IF /\ Len(events.batch) >= 2
                          /\ \A i \in 1..Len(events.batch) :
                                /\ events.batch[i].kind = "Modify"
                                /\ events.batch[i].paths = events.batch[1].paths
                       THEN events.batch[1].paths[1]
                       ELSE NoneVal]
    /\ UNCHANGED <<origin_fs, backup_fs, original, backup, path_mapping, options, sync,
                   before>>
    /\ UNCHANGED <<broker_vars, agent_vars>>

\* AppState::process_debounced_event for the events a handler runs to its end
\* under the write lock; a Rename with fewer than two paths is passed over
process_debounced_event(w, opts, e) ==
    CASE e.kind = "Create" -> handle_original_created(w, e.paths[1])
      [] e.kind = "Remove" -> handle_original_deleted(w, opts, e.paths[1])
      [] e.kind = "Rename" ->
            IF Len(e.paths) >= 2 THEN handle_original_renamed(w, e.paths[1], e.paths[2])
            ELSE Done(w)

\* the handler of the i-th event has returned r: an error is unwrapped by the
\* loop, which ends once the batch is through
Returned(i, r) ==
    /\ origin_fs' = r.w.origin_fs
    /\ backup_fs' = r.w.backup_fs
    /\ original' = r.w.original
    /\ backup' = r.w.backup
    /\ path_mapping' = r.w.path_mapping
    /\ events' =
          LET rest == RemoveAt(events.batch, i)
              failed == events.failed \/ ~r.ok
          IN [events EXCEPT
                 !.batch = rest,
                 !.failed = failed,
                 !.phase = IF rest # <<>> THEN "process"
                           ELSE IF failed THEN "crashed" ELSE "collect"]
    /\ UNCHANGED <<options, sync, before>>
    /\ UNCHANGED <<broker_vars, agent_vars>>

Processing(i) ==
    /\ events.phase = "process"
    /\ i \in 1..Len(events.batch)

ProcessCreate(i) ==
    /\ Processing(i)
    /\ events.batch[i].kind = "Create"
    /\ Returned(i, process_debounced_event(World, options, events.batch[i]))

ProcessDelete(i) ==
    /\ Processing(i)
    /\ events.batch[i].kind = "Remove"
    /\ Returned(i, process_debounced_event(World, options, events.batch[i]))

ProcessRename(i) ==
    /\ Processing(i)
    /\ events.batch[i].kind = "Rename"
    /\ Returned(i, process_debounced_event(World, options, events.batch[i]))

\* process_modified_path, first phase, under the read lock: the delta is kept
\* by the thread; an empty one or an error ends the handler
ProcessModifiedCalculate(i) ==
    /\ Processing(i)
    /\ events.batch[i].kind = "Modify"
    /\ events.batch[i].pc = "new"
    /\ LET c == handle_original_modified_calculate_delta(World, events.batch[i].paths[1])
       IN IF c.res = "Ok" /\ c.delta # <<>>
          THEN /\ events' = [events EXCEPT !.batch[i].pc = "delta",
                                           !.batch[i].delta = c.delta]
               /\ UNCHANGED <<origin_fs, backup_fs, original, backup, path_mapping,
                              options, sync, before>>
               /\ UNCHANGED <<broker_vars, agent_vars>>
          ELSE Returned(i, IF c.res = "Ok" THEN Done(World) ELSE Failed(World))

\* process_modified_path, second phase, under the write lock
ProcessModifiedApply(i) ==
    /\ Processing(i)
    /\ events.batch[i].pc = "delta"
    /\ Returned(i, handle_original_modified_apply_delta(
                       World, events.batch[i].paths[1], events.batch[i].delta))

EventOptions ==
    {[DefaultOptions EXCEPT !.when_delete_keep_backup = k] : k \in BOOLEAN}

InitEvents ==
    /\ BrokerIdle
    /\ AgentIdle
    /\ origin_fs \in Trees
    /\ backup_fs = [p \in Paths |-> NoNode]
    /\ original = <<>>
    /\ backup = <<>>
    /\ path_mapping = {}
    /\ options \in EventOptions
    /\ sync = NoSync
    /\ before = [origin |-> origin_fs, backup |-> backup_fs]
    /\ events = NoEvents

NextEvents ==
    \/ SynchronizerNew
    \/ SyncBegin
    \/ \E p \in Paths : SyncMissingInBackup(p)
    \/ \E p \in Paths : SyncConflicts(p)
    \/ \E p \in Paths, d \in FileData : UserWrite(p, d)
    \/ \E p \in Paths : UserRemove(p)
    \/ \E p, q \in Paths, n \in 1..2 : UserRename(p, q, n)
    \/ Recv
    \/ \E i \in 1..MaxEvents : ProcessCreate(i)
    \/ \E i \in 1..MaxEvents : ProcessDelete(i)
    \/ \E i \in 1..MaxEvents : ProcessRename(i)
    \/ \E i \in 1..MaxEvents : ProcessModifiedCalculate(i)
    \/ \E i \in 1..MaxEvents : ProcessModifiedApply(i)

SpecEvents == InitEvents /\ [][NextEvents]_vars

\* ------------------------------------------------------------------ properties of the event handlers
\* the events of the batch a handler has still to run for
Pending == IF events.phase = "process" THEN 1..Len(events.batch) ELSE {}

\* C31: the handler of a Remove event returns Ok; without when_delete_keep_backup
\* the backup of a tracked path is removed and its mapping dropped, with it the
\* backup is left as it is; for a path that is not tracked, or whose backup is
\* missing, nothing changes on the disk.
C31_DeleteEvent ==
    \A i \in Pending :
        events.batch[i].kind = "Remove" =>
            LET p == events.batch[i].paths[1]
                r == handle_original_deleted(World, options, p)
            IN /\ r.ok
               /\ IF options.when_delete_keep_backup
                  THEN r.w.backup_fs = backup_fs
                  ELSE IF p \in path_mapping /\ Exists(backup_fs, p)
                  THEN ~Exists(r.w.backup_fs, p) /\ p \notin r.w.path_mapping
                  ELSE r.w.backup_fs = backup_fs

\* a Modify handler is between its two phases
MidModify == \E i \in 1..Len(events.batch) : events.batch[i].pc = "delta"

C33_VerifiedBeforeCommit ==
    \A i \in Pending :
        LET p == events.batch[i].paths[1]
            out == apply_patch(backup_fs[p].data, events.batch[i].delta)
            r == handle_original_modified_apply_delta(World, p, events.batch[i].delta)
        IN (/\ events.batch[i].pc = "delta"
            /\ backup_fs[p].kind = "file"
            /\ origin_fs[p].kind = "file"
            /\ out.ok
            /\ Hash(out.data) # Hash(origin_fs[p].data)) =>
               /\ ~r.ok
               /\ r.w.backup_fs = backup_fs

\* C37: once the handlers of a batch of Modify(Data) events for one path, run
\* by parallel threads, have all returned, the backup file has the content of
\* the original file and the stored signatures are those of the files on disk.
C37_ParallelModify ==
    (/\ events.phase = "collect"
     /\ events.race # NoneVal
     /\ ~events.failed) =>
        /\ backup_fs[events.race] = origin_fs[events.race]
        /\ events.race \in DOMAIN original
        /\ events.race \in DOMAIN backup
        /\ original[events.race] = create_signature(origin_fs[events.race])
        /\ backup[events.race] = create_signature(backup_fs[events.race])

\* C34: for a Rename event from A to B that a handler is about to take: when
\* the backup of A exists the handler moves it to the backup location of B and
\* moves the path mapping from A to B; when the backup of A is missing the
\* handler fails; an event with fewer than two paths returns Ok and changes
\* nothing.
C34_RenameEvent ==
    \A i \in Pending :
        events.batch[i].kind = "Rename" =>
            LET e == events.batch[i]
                r == process_debounced_event(World, options, e)
            IN IF Len(e.paths) < 2
               THEN r.ok /\ r.w = World
               ELSE IF Exists(backup_fs, e.paths[1])
               THEN r.ok =>
                       /\ r.w.backup_fs[e.paths[2]] = backup_fs[e.paths[1]]
                       /\ ~Exists(r.w.backup_fs, e.paths[1])
                       /\ e.paths[1] \notin r.w.path_mapping
                       /\ e.paths[2] \in r.w.path_mapping
               ELSE ~r.ok
====
